---- MODULE Spec2Model ----
(***************************************************************************)
(* Velvet: the rule-evaluation pipeline.                                   *)
(*                                                                         *)
(*   ResultsCollector   engine/results.ts     (src/unnamed/part_005)       *)
(*   ambient functions  src/src/dsl/functions.ts                           *)
(*   Git                dsl/git.ts            (src/src/dsl/types.ts:143..) *)
(*   GitHub             src/src/dsl/github.ts                              *)
(*   createReviewContext dsl/index.ts         (src/unnamed/part_002)       *)
(*   loader             engine/loader.ts      (src/unnamed/part_003:307..) *)
(*   RuleEvaluator      engine/evaluator.ts   (src/unnamed/part_006)       *)
(*   commands           src/src/commands/{local,run,review}.ts             *)
(*                                                                         *)
(* Strings of the program are kept abstract: a path or a glob pattern is   *)
(* the sequence of its tokens ("src", "/", "a", ".", "ts"), a message is   *)
(* a tuple naming its text and the evaluation whose rule wrote it.  An     *)
(* optional value (x?: T, T | undefined) is a sequence of length <= 1.     *)
(***************************************************************************)
EXTENDS Integers, Sequences, FiniteSets, TLC

(***************************************************************************)
(* Bounds of the model.                                                    *)
(***************************************************************************)
MaxFiles == 2      \* entries of one backend diff summary
MaxLines == 1      \* the nonzero insertions / deletions count of a diff entry
MaxCommits == 1    \* commits of one backend log
MaxRuleOps == 2    \* reporting calls one run of the rule function makes
MaxSeqRuleOps == 1 \* the same, in a process that runs several evaluations
MaxCollectorOps == 3 \* calls made directly on one ResultsCollector
MaxEvals == 2      \* evaluate() calls of one process

None == <<>>
Some(x) == <<x>>
IsSome(o) == o /= <<>>
Get(o) == o[1]

SeqToSet(s) == {s[i] : i \in 1..Len(s)}

RECURSIVE SelectSeqBy(_, _)
\* the elements of s that are in the set keep, in the order of s
SelectSeqBy(s, keep) ==
    IF s = <<>> THEN <<>>
    ELSE IF Head(s) \in keep THEN <<Head(s)>> \o SelectSeqBy(Tail(s), keep)
         ELSE SelectSeqBy(Tail(s), keep)

(***************************************************************************)
(* The version-control backend (simple-git) as the Git class sees it.      *)
(***************************************************************************)
AllPaths == << <<"src", "/", "a", ".", "ts">>,
               <<"src", "/", "b", "/", "c", ".", "ts">>,
               <<"test", "/", "a", ".", "ts">>,
               <<"README", ".", "md">> >>

Paths == {AllPaths[i] : i \in 1..3}

\* The line counts of an entry: Git.initialize only compares a count with
\* zero and copies it, so a count is zero or MaxLines.
LineCounts == {0, MaxLines}

\* One entry of DiffResult.files.  A binary entry carries no line counts
\* (simple-git's DiffResultBinaryFile); a text entry has changes = insertions
\* + deletions.
TextEntries ==
    {[file |-> p, insertions |-> i, deletions |-> d, changes |-> i + d, binary |-> FALSE] :
        p \in Paths, i \in LineCounts, d \in LineCounts}

BinaryEntries ==
    {[file |-> p, insertions |-> 0, deletions |-> 0, changes |-> 0, binary |-> TRUE] :
        p \in Paths}

DiffEntries == TextEntries \cup BinaryEntries

EntryPaths(files) == {files[i].file : i \in 1..Len(files)}

\* git diff --stat lists every changed path once: the entries of one summary
\* have pairwise distinct paths, in any order.
RECURSIVE DiffSummariesUpTo(_)
DiffSummariesUpTo(n) ==
    IF n = 0 THEN {<<>>}
    ELSE LET shorter == DiffSummariesUpTo(n - 1)
         IN  shorter \cup
             UNION {{Append(s, e) : e \in {x \in DiffEntries : x.file \notin EntryPaths(s)}} :
                        s \in shorter}

DiffSummaries == DiffSummariesUpTo(MaxFiles)

AllHashes == <<"c1", "c2", "c3">>

\* the log of base..HEAD is a chain of commits
Logs == {[i \in 1..n |-> [hash |-> AllHashes[i], author_name |-> "dev",
                           date |-> "2024-01-01", message |-> "work"]] : n \in 0..MaxCommits}

\* What the backend answers to the two queries of Git.initialize: each query
\* either resolves with data or rejects.
BackendAnswers ==
    {[diffFails |-> FALSE, files |-> f, logFails |-> FALSE, log |-> l] :
        f \in DiffSummaries, l \in Logs}
    \cup {[diffFails |-> FALSE, files |-> f, logFails |-> TRUE, log |-> <<>>] :
        f \in DiffSummaries}
    \cup {[diffFails |-> TRUE, files |-> <<>>, logFails |-> lf, log |-> <<>>] :
        lf \in BOOLEAN}

(***************************************************************************)
(* Git (dsl/git.ts).                                                       *)
(***************************************************************************)
\* new Git(): the field initializers
NewGit ==
    [modified_files |-> <<>>, created_files |-> <<>>, deleted_files |-> <<>>,
     commits |-> <<>>, diffs |-> <<>>]

\* categorizeFile with the third test an "if" of its own instead of an "else if"
categorizeFile_NoElse(g, file) ==
    IF file.binary THEN g
    ELSE LET g1 == IF file.insertions > 0 /\ file.deletions = 0
                      THEN [g EXCEPT !.created_files = Append(@, file.file)]
                   ELSE IF file.deletions > 0 /\ file.insertions = 0
                      THEN [g EXCEPT !.deleted_files = Append(@, file.file)]
                   ELSE g
             g2 == IF file.insertions > 0 \/ file.deletions > 0
                      THEN [g1 EXCEPT !.modified_files = Append(@, file.file)]
                   ELSE g1
         IN  [g2 EXCEPT !.diffs = Append(@, [file |-> file.file,
                                             additions |-> file.insertions,
                                             deletions |-> file.deletions,
                                             changes |-> file.changes])]

\* categorizeFile with the first test lacking "&& file.deletions === 0"
categorizeFile_InsertionsOnly(g, file) ==
    IF file.binary THEN g
    ELSE LET g1 == IF file.insertions > 0
                      THEN [g EXCEPT !.created_files = Append(@, file.file)]
                   ELSE IF file.deletions > 0 /\ file.insertions = 0
                      THEN [g EXCEPT !.deleted_files = Append(@, file.file)]
                   ELSE IF file.insertions > 0 \/ file.deletions > 0
                      THEN [g EXCEPT !.modified_files = Append(@, file.file)]
                   ELSE g
         IN  [g1 EXCEPT !.diffs = Append(@, [file |-> file.file,
                                             additions |-> file.insertions,
                                             deletions |-> file.deletions,
                                             changes |-> file.changes])]

\* categorizeFile whose second branch pushes nothing
categorizeFile_DropsDeleted(g, file) ==
    IF file.binary THEN g
    ELSE LET g1 == IF file.insertions > 0 /\ file.deletions = 0
                      THEN [g EXCEPT !.created_files = Append(@, file.file)]
                   ELSE IF file.deletions > 0 /\ file.insertions = 0
                      THEN g
                   ELSE IF file.insertions > 0 \/ file.deletions > 0
                      THEN [g EXCEPT !.modified_files = Append(@, file.file)]
                   ELSE g
         IN  [g1 EXCEPT !.diffs = Append(@, [file |-> file.file,
                                             additions |-> file.insertions,
                                             deletions |-> file.deletions,
                                             changes |-> file.changes])]

\* categorizeFile that stores diff info only for a file it put in a bucket
categorizeFile_DiffsOnlyChanged(g, file) ==
    IF file.binary \/ (file.insertions = 0 /\ file.deletions = 0) THEN g
    ELSE LET g1 == IF file.insertions > 0 /\ file.deletions = 0
                      THEN [g EXCEPT !.created_files = Append(@, file.file)]
                   ELSE IF file.deletions > 0 /\ file.insertions = 0
                      THEN [g EXCEPT !.deleted_files = Append(@, file.file)]
                   ELSE [g EXCEPT !.modified_files = Append(@, file.file)]
         IN  [g1 EXCEPT !.diffs = Append(@, [file |-> file.file,
                                             additions |-> file.insertions,
                                             deletions |-> file.deletions,
                                             changes |-> file.changes])]

\* the body of the loop "for (const file of diffSummary.files)"
categorizeFile(g, file) ==
    IF file.binary THEN g
    ELSE LET g1 == IF file.insertions > 0 /\ file.deletions = 0
                      THEN [g EXCEPT !.created_files = Append(@, file.file)]
                   ELSE IF file.deletions > 0 /\ file.insertions = 0
                      THEN [g EXCEPT !.deleted_files = Append(@, file.file)]
                   ELSE IF file.insertions > 0 \/ file.deletions > 0
                      THEN [g EXCEPT !.modified_files = Append(@, file.file)]
                   ELSE g
         IN  [g1 EXCEPT !.diffs = Append(@, [file |-> file.file,
                                             additions |-> file.insertions,
                                             deletions |-> file.deletions,
                                             changes |-> file.changes])]

RECURSIVE categorizeFiles(_, _)
categorizeFiles(g, files) ==
    IF files = <<>> THEN g
    ELSE categorizeFiles(categorizeFile(g, Head(files)), Tail(files))

mapCommits(log) ==
    [i \in 1..Len(log) |-> [sha |-> log[i].hash, author |-> log[i].author_name,
                            date |-> <<"Date", log[i].date>>,
                            message |-> log[i].message]]

\* Git.initialize: the fields of the instance after the call.  A rejected
\* query leaves the try block at that point; the catch only logs.
Git_initialize(g, backend) ==
    IF backend.diffFails THEN g
    ELSE LET g1 == categorizeFiles(g, backend.files)
         IN  IF backend.logFails THEN g1
             ELSE [g1 EXCEPT !.commits = mapCommits(backend.log)]

(***************************************************************************)
(* micromatch, as Git.fileMatch uses it: a glob pattern against a path,    *)
(* both as token sequences.  "*" stands for any run of tokens within one   *)
(* path segment, "**" for any run of tokens across segments, and "**"      *)
(* followed by "/" also for no segment at all.  A pattern that starts with *)
(* "!" is negated.                                                         *)
(***************************************************************************)
RECURSIVE matchGlob(_, _)
\* a path against a pattern without negation
matchGlob(path, glob) ==
    IF glob = <<>> THEN path = <<>>
    ELSE IF Head(glob) = "**"
        THEN \/ matchGlob(path, Tail(glob))
             \/ Len(glob) >= 2 /\ glob[2] = "/" /\ matchGlob(path, Tail(Tail(glob)))
             \/ path /= <<>> /\ matchGlob(Tail(path), glob)
    ELSE IF Head(glob) = "*"
        THEN \/ matchGlob(path, Tail(glob))
             \/ path /= <<>> /\ Head(path) /= "/" /\ matchGlob(Tail(path), glob)
    ELSE path /= <<>> /\ Head(path) = Head(glob) /\ matchGlob(Tail(path), Tail(glob))

negated(glob) == glob /= <<>> /\ Head(glob) = "!"

\* the pattern a negated pattern negates
positive(glob) == IF negated(glob) THEN Tail(glob) ELSE glob

\* micromatch.isMatch(path, glob): whether one path matches one pattern
isMatch(path, glob) ==
    IF negated(glob) THEN ~matchGlob(path, Tail(glob)) ELSE matchGlob(path, glob)

\* Set.add on a set kept in insertion order
addItem(seq, x) == IF x \in SeqToSet(seq) THEN seq ELSE Append(seq, x)

RECURSIVE unique(_)
\* the items of a list, each once, in list order
unique(list) ==
    IF list = <<>> THEN <<>>
    ELSE addItem(unique(SubSeq(list, 1, Len(list) - 1)), list[Len(list)])

RECURSIVE addMatches(_, _, _)
\* one pattern's pass over the list: an item that matches the pattern's
\* positive part goes to omit when the pattern is negated, and otherwise
\* leaves omit and joins keep
addMatches(st, list, glob) ==
    IF list = <<>> THEN st
    ELSE LET item == Head(list)
             next == IF ~matchGlob(item, positive(glob)) THEN st
                     ELSE IF negated(glob) THEN [st EXCEPT !.omit = @ \cup {item}]
                     ELSE [omit |-> st.omit \ {item}, keep |-> addItem(st.keep, item)]
         IN  addMatches(next, Tail(list), glob)

RECURSIVE micromatchFrom(_, _, _)
micromatchFrom(st, list, patterns) ==
    IF patterns = <<>> THEN st
    ELSE micromatchFrom(addMatches(st, list, Head(patterns)), list, Tail(patterns))

\* micromatch(list, patterns): the kept items (every item when all patterns
\* are negated) without the omitted ones
micromatch(list, patterns) ==
    LET st == micromatchFrom([omit |-> {}, keep |-> <<>>], list, patterns)
        result == IF patterns /= <<>> /\ \A i \in 1..Len(patterns) : negated(patterns[i])
                      THEN unique(list) ELSE st.keep
    IN  SelectSeqBy(result, SeqToSet(result) \ st.omit)

\* fileMatch that filters created from the deleted list and deleted from the
\* created list
fileMatch_SwapsBuckets(g, patterns) ==
    [edited |-> micromatch(g.modified_files, patterns),
     created |-> micromatch(g.deleted_files, patterns),
     deleted |-> micromatch(g.created_files, patterns)]

\* Git.fileMatch(pattern): the three filtered lists of the returned FileMatch
fileMatch(g, patterns) ==
    [edited |-> micromatch(g.modified_files, patterns),
     created |-> micromatch(g.created_files, patterns),
     deleted |-> micromatch(g.deleted_files, patterns)]

\* getAll that also spreads the matched deleted paths
getAll_WithDeleted(match) == match.edited \o match.created \o match.deleted

\* FileMatch.getAll()
getAll(match) == match.edited \o match.created

\* matches that leaves the deleted files out of allFiles
matches_NoDeleted(g, p) ==
    Len(micromatch(g.modified_files \o g.created_files, <<p>>)) > 0

\* FileMatch.matches(p): the closure reads the instance's three lists
matches(g, p) ==
    Len(micromatch(g.modified_files \o g.created_files \o g.deleted_files, <<p>>)) > 0

\* hasChanges that does not look at match.deleted
hasChanges_NoDeleted(g, patterns) ==
    LET match == fileMatch(g, patterns)
    IN  Len(match.edited) > 0 \/ Len(match.created) > 0

\* Git.hasChanges(pattern)
hasChanges(g, patterns) ==
    LET match == fileMatch(g, patterns)
    IN  Len(match.edited) > 0 \/ Len(match.created) > 0 \/ Len(match.deleted) > 0

\* the glob patterns rules ask about
Globs == { <<"**">>,
           <<"src", "/", "**", "/", "*", ".", "ts">>,
           <<"*", ".", "md">>,
           <<"docs", "/", "**">>,
           <<"!", "src", "/", "**">> }

\* fileMatch and hasChanges take one pattern or a list of patterns
PatternArgs ==
    {<<p>> : p \in Globs}
    \cup {<< <<"src", "/", "**", "/", "*", ".", "ts">>, <<"*", ".", "md">> >>,
          << <<"**">>, <<"!", "src", "/", "**">> >>,
          << <<"!", "src", "/", "**">>, <<"**">> >>}

(***************************************************************************)
(* ResultsCollector (engine/results.ts) and the ambient reporting          *)
(* functions (dsl/functions.ts).                                           *)
(***************************************************************************)
EmptyResults ==
    [messages |-> <<>>, warnings |-> <<>>, failures |-> <<>>, markdowns |-> <<>>]

\* reset that leaves the lists as they are
reset_Keeps(r) == r

\* reset that replaces the three finding lists and keeps the markdown blocks
reset_KeepsMarkdowns(r) ==
    [messages |-> <<>>, warnings |-> <<>>, failures |-> <<>>, markdowns |-> r.markdowns]

\* ResultsCollector.reset
reset(r) == EmptyResults

\* ResultsCollector.addMessage / addWarning / addFailure / addMarkdown
addMessage(r, msg, f, ln) ==
    [r EXCEPT !.messages =
        Append(@, [level |-> "message", message |-> msg, file |-> f, line |-> ln])]

\* addWarning that puts the new entry first
addWarning_Prepends(r, msg, f, ln) ==
    [r EXCEPT !.warnings =
        <<[level |-> "warn", message |-> msg, file |-> f, line |-> ln]>> \o @]

addWarning(r, msg, f, ln) ==
    [r EXCEPT !.warnings =
        Append(@, [level |-> "warn", message |-> msg, file |-> f, line |-> ln])]

addFailure(r, msg, f, ln) ==
    [r EXCEPT !.failures =
        Append(@, [level |-> "fail", message |-> msg, file |-> f, line |-> ln])]

addMarkdown(r, content) == [r EXCEPT !.markdowns = Append(@, content)]

\* ResultsCollector.hasFailures / hasWarnings / getExitCode
hasFailures(r) == Len(r.failures) > 0

hasWarnings(r) == Len(r.warnings) > 0

\* getExitCode that returns the number of failures
getExitCode_CountsFailures(r) == Len(r.failures)

getExitCode(r) == IF hasFailures(r) THEN 1 ELSE 0

(***************************************************************************)
(* The report of a collector.  A text is a sequence of string pieces; the  *)
(* piece "\n" is a line break.  Emoji of the literals are left out.        *)
(***************************************************************************)
DigitChars == <<"0", "1", "2", "3", "4", "5", "6", "7", "8", "9">>

\* `${n}` of a non-negative number
RECURSIVE toString(_)
toString(n) ==
    IF n < 10 THEN <<DigitChars[n + 1]>>
    ELSE Append(toString(n \div 10), DigitChars[(n % 10) + 1])

\* Array.prototype.join
RECURSIVE join(_, _)
join(parts, sep) ==
    IF parts = <<>> THEN <<>>
    ELSE IF Len(parts) = 1 THEN parts[1]
    ELSE parts[1] \o sep \o join(Tail(parts), sep)

\* formatSummary that has no part for the messages
formatSummary_OmitsMessages(r) ==
    LET parts ==
            (IF Len(r.failures) > 0
                 THEN <<toString(Len(r.failures)) \o <<" failure(s)">>>> ELSE <<>>)
            \o (IF Len(r.warnings) > 0
                    THEN <<toString(Len(r.warnings)) \o <<" warning(s)">>>> ELSE <<>>)
    IN  IF Len(parts) > 0 THEN join(parts, <<", ">>) ELSE <<"No issues found">>

\* ResultsCollector.formatSummary
formatSummary(r) ==
    LET parts ==
            (IF Len(r.failures) > 0
                 THEN <<toString(Len(r.failures)) \o <<" failure(s)">>>> ELSE <<>>)
            \o (IF Len(r.warnings) > 0
                    THEN <<toString(Len(r.warnings)) \o <<" warning(s)">>>> ELSE <<>>)
            \o (IF Len(r.messages) > 0
                    THEN <<toString(Len(r.messages)) \o <<" message(s)">>>> ELSE <<>>)
    IN  IF Len(parts) > 0 THEN join(parts, <<", ">>) ELSE <<"No issues found">>

\* the location suffix of a bullet: file and line are tested for truthiness;
\* the backquotes around it are written as quotes
formatBulletLocation(result) ==
    IF IsSome(result.file) /\ Get(result.file) /= <<>>
        THEN <<" '">> \o Get(result.file)
             \o (IF IsSome(result.line) /\ Get(result.line) /= 0
                     THEN <<":">> \o toString(Get(result.line)) ELSE <<>>)
             \o <<"'">>
    ELSE <<>>

\* the lines one section pushes: its heading, one bullet per entry, ""
formatSection(heading, results) ==
    IF Len(results) > 0
        THEN <<<<heading, "\n">>>>
             \o [i \in 1..Len(results) |->
                    <<"- ">> \o results[i].message \o formatBulletLocation(results[i])]
             \o <<<<>>>>
    ELSE <<>>

\* the banner line of the report, given the summary
formatBanner(r, summary) ==
    IF hasFailures(r) THEN <<"**Review Failed:** ">> \o summary \o <<"\n">>
    ELSE IF hasWarnings(r) THEN <<"**Review Passed with Warnings:** ">> \o summary \o <<"\n">>
    ELSE <<"**Review Passed:** ">> \o summary \o <<"\n">>

\* formatAsMarkdown with the messages section before the warnings section
formatAsMarkdown_MessagesFirst(r) ==
    LET output ==
            <<<<"## Code Review Results", "\n">>>>
            \o <<formatBanner(r, formatSummary(r))>>
            \o formatSection("### Failures", r.failures)
            \o formatSection("### Messages", r.messages)
            \o formatSection("### Warnings", r.warnings)
            \o (IF Len(r.markdowns) > 0
                    THEN <<<<"---", "\n">>, join(r.markdowns, <<"\n", "\n">>), <<>>>>
                    ELSE <<>>)
            \o <<<<"\n", "---", "\n", "*Generated by velvet*">>>>
    IN  join(output, <<"\n">>)

\* ResultsCollector.formatAsMarkdown
formatAsMarkdown(r) ==
    LET output ==
            <<<<"## Code Review Results", "\n">>>>
            \o <<formatBanner(r, formatSummary(r))>>
            \o formatSection("### Failures", r.failures)
            \o formatSection("### Warnings", r.warnings)
            \o formatSection("### Messages", r.messages)
            \o (IF Len(r.markdowns) > 0
                    THEN <<<<"---", "\n">>, join(r.markdowns, <<"\n", "\n">>), <<>>>>
                    ELSE <<>>)
            \o <<<<"\n", "---", "\n", "*Generated by velvet*">>>>
    IN  join(output, <<"\n">>)

\* The collectors of the process: the module-level singleton of results.ts and
\* one collector made by the caller with new ResultsCollector().
CollectorNames == {"global", "custom"}

\* message(), warn(), fail(), markdown() of dsl/functions.ts: each writes to
\* the singleton globalResultsCollector
message(cs, msg, f, ln) == [cs EXCEPT !["global"] = addMessage(@, msg, f, ln)]

warn(cs, msg, f, ln) == [cs EXCEPT !["global"] = addWarning(@, msg, f, ln)]

fail(cs, msg, f, ln) == [cs EXCEPT !["global"] = addFailure(@, msg, f, ln)]

markdown(cs, content) == [cs EXCEPT !["global"] = addMarkdown(@, content)]

(***************************************************************************)
(* The loader (engine/loader.ts).  A reviewfile name is <<base, ext>>;     *)
(* <<>> is the empty string.                                               *)
(***************************************************************************)
extensions == <<".ts", ".js", ".mts", ".mjs">>

\* the search loop without its early return: the last existing candidate wins
firstExisting_LastWins(i, existing) ==
    LET found == {k \in i..Len(extensions) : <<"reviewfile", extensions[k]>> \in existing}
    IN  IF found = {}
            THEN [path |-> <<"reviewfile", ".ts">>, exists |-> FALSE, isTypeScript |-> TRUE]
        ELSE LET k == CHOOSE x \in found : \A y \in found : y <= x
             IN  [path |-> <<"reviewfile", extensions[k]>>, exists |-> TRUE,
                  isTypeScript |-> extensions[k] \in {".ts", ".mts"}]

RECURSIVE firstExisting(_, _)
\* the loop over extensions of findReviewFile, from index i on
firstExisting(i, existing) ==
    IF i > Len(extensions)
        THEN [path |-> <<"reviewfile", ".ts">>, exists |-> FALSE, isTypeScript |-> TRUE]
    ELSE IF <<"reviewfile", extensions[i]>> \in existing
        THEN [path |-> <<"reviewfile", extensions[i]>>, exists |-> TRUE,
              isTypeScript |-> extensions[i] \in {".ts", ".mts"}]
    ELSE firstExisting(i + 1, existing)

\* findReviewFile(providedPath, projectRoot), existing: the files fs.existsSync finds
findReviewFile(providedPath, existing) ==
    IF providedPath /= <<>>
        THEN [path |-> providedPath, exists |-> providedPath \in existing,
              isTypeScript |-> providedPath[2] = ".ts"]
    ELSE firstExisting(1, existing)

\* validateReviewFile without the "if (!info.exists)" block
validateReviewFile_NoExistsCheck(info, readable) ==
    IF info.path \notin readable THEN "ReviewfileNotReadable"
    ELSE "ok"

\* validateReviewFile(info): "ok", or the error it throws
validateReviewFile(info, readable) ==
    IF ~info.exists THEN "ReviewfileNotFound"
    ELSE IF info.path \notin readable THEN "ReviewfileNotReadable"
    ELSE "ok"

\* What import(fileUrl) does with the module at the path, and what the
\* module's default export is when the import resolves.
\* "UnexpectedToken" and "UnexpectedIdentifier" are syntax errors whose message
\* does and does not contain "Unexpected token".
ImportOutcomes ==
    {"CannotFindModule", "UnexpectedToken", "UnexpectedIdentifier", "OtherError",
     "NonErrorThrown", "NoDefault", "NonFunctionDefault", "Function"}

\* loadReviewFile without the test of module.default
loadReviewFile_NoShapeCheck(outcome) ==
    CASE outcome \in {"Function", "NoDefault", "NonFunctionDefault"} -> "ok"
      [] outcome = "CannotFindModule" -> "FailedToLoadReviewfile"
      [] outcome = "UnexpectedToken" -> "FailedToParseReviewfile"
      [] outcome = "UnexpectedIdentifier" -> "SyntaxError: Unexpected identifier"
      [] outcome = "OtherError" -> "OtherError"
      [] outcome = "NonErrorThrown" -> "UnknownErrorLoadingReviewfile"

\* loadReviewFile(filePath): "ok" (the default export is returned), or the
\* error it rejects with
loadReviewFile(outcome) ==
    CASE outcome = "Function" -> "ok"
      [] outcome \in {"NoDefault", "NonFunctionDefault"} -> "MustExportDefaultFunction"
      [] outcome = "CannotFindModule" -> "FailedToLoadReviewfile"
      [] outcome = "UnexpectedToken" -> "FailedToParseReviewfile"
      [] outcome = "UnexpectedIdentifier" -> "SyntaxError: Unexpected identifier"
      [] outcome = "OtherError" -> "OtherError"
      [] outcome = "NonErrorThrown" -> "UnknownErrorLoadingReviewfile"

(***************************************************************************)
(* GitHub (dsl/github.ts) and the process environment it reads.            *)
(***************************************************************************)
\* process.env: which variables are set; GITHUB_REF is "pull" for
\* refs/pull/<n>/merge, "branch" for any other ref, "" when unset.
\* (GITHUB_TOKEN is read once by runCommand and is an input of that command.)
\* GitHub Actions sets GITHUB_ACTIONS together with GITHUB_REPOSITORY and
\* GITHUB_REF; elsewhere GITHUB_REF is unset and the others are the user's.
Environments ==
    {[GITHUB_ACTIONS |-> TRUE, GITHUB_REPOSITORY |-> TRUE, GITHUB_PR_NUMBER |-> n,
      GITHUB_REF |-> ref] : n \in BOOLEAN, ref \in {"branch", "pull"}}
    \cup {[GITHUB_ACTIONS |-> FALSE, GITHUB_REPOSITORY |-> r, GITHUB_PR_NUMBER |-> n,
            GITHUB_REF |-> ""] : r \in BOOLEAN, n \in BOOLEAN}

\* What the hosting API holds for the pull request
UpstreamPR == [number |-> 7, title |-> "feat: x"]

UpstreamReviews == <<[id |-> 1, state |-> "APPROVED"]>>

UpstreamComments == <<[id |-> 2, body |-> "lgtm"]>>

\* new GitHub(): pr is declared without a value, reviews and comments are []
NewGitHub == [pr |-> None, reviews |-> <<>>, comments |-> <<>>]

\* GitHub.extractPRNumberFromRef
extractPRNumberFromRef(environment) == environment.GITHUB_REF = "pull"

\* The three fetches of GitHub.initialize, in order; fetches[i] tells whether
\* the i-th (pr, reviews, comments) resolves.
FetchOutcomes == [1..3 -> BOOLEAN]

\* GitHub.initialize: the fields of the instance after the call and whether
\* the call rejected.  The first failing step ends it.
GitHub_initialize(gh, environment, fetches) ==
    IF ~environment.GITHUB_REPOSITORY
       \/ ~(environment.GITHUB_PR_NUMBER \/ extractPRNumberFromRef(environment))
        THEN [github |-> gh, rejected |-> TRUE]
    ELSE IF ~fetches[1] THEN [github |-> gh, rejected |-> TRUE]
    ELSE LET gh1 == [gh EXCEPT !.pr = Some(UpstreamPR)]
         IN  IF ~fetches[2] THEN [github |-> gh1, rejected |-> TRUE]
             ELSE LET gh2 == [gh1 EXCEPT !.reviews = UpstreamReviews]
                  IN  IF ~fetches[3] THEN [github |-> gh2, rejected |-> TRUE]
                      ELSE [github |-> [gh2 EXCEPT !.comments = UpstreamComments],
                            rejected |-> FALSE]

\* createReviewContext that tests isGitHub alone
createReviewContext_IgnoresOption(enableGitHub, environment, answers, fetches) ==
    LET g == Git_initialize(NewGit, answers)
        isGitHub == environment.GITHUB_ACTIONS /\ environment.GITHUB_REPOSITORY
        gh == IF isGitHub
                 THEN Some(GitHub_initialize(NewGitHub, environment, fetches).github)
                 ELSE None
    IN  [git |-> g, github |-> gh, isGitHub |-> isGitHub]

(***************************************************************************)
(* createReviewContext (dsl/index.ts).                                     *)
(***************************************************************************)
\* The ReviewDSL object it resolves to; github is None for undefined.
\* "github = new GitHub()" is assigned before "await github.initialize()";
\* the catch around the two statements only warns.
createReviewContext(enableGitHub, environment, answers, fetches) ==
    LET g == Git_initialize(NewGit, answers)
        isGitHub == environment.GITHUB_ACTIONS /\ environment.GITHUB_REPOSITORY
        gh == IF enableGitHub /\ isGitHub
                 THEN Some(GitHub_initialize(NewGitHub, environment, fetches).github)
                 ELSE None
    IN  [git |-> g, github |-> gh, isGitHub |-> isGitHub]

\* how many requests createReviewContext sent to the GitHub API: the fetches
\* of github.initialize() up to the first one that fails
githubFetches(enableGitHub, environment, fetches) ==
    IF ~(enableGitHub /\ environment.GITHUB_ACTIONS /\ environment.GITHUB_REPOSITORY) THEN 0
    ELSE IF ~environment.GITHUB_REPOSITORY
            \/ ~(environment.GITHUB_PR_NUMBER \/ extractPRNumberFromRef(environment)) THEN 0
    ELSE IF ~fetches[1] THEN 1
    ELSE IF ~fetches[2] THEN 2
    ELSE 3

\* whether createReviewContext called github.initialize() and it rejected
githubInitFailed(enableGitHub, environment, fetches) ==
    /\ enableGitHub
    /\ environment.GITHUB_ACTIONS /\ environment.GITHUB_REPOSITORY
    /\ GitHub_initialize(NewGitHub, environment, fetches).rejected

(***************************************************************************)
(* RuleEvaluator (engine/evaluator.ts).                                    *)
(***************************************************************************)
\* What the rule function does with the promise it returns
RuleOutcomes == {"return", "throwError", "throwOther"}

\* executeReviewFile whose catch block has no else branch
executeReviewFile_ErrorsOnly(cs, own, outcome, thrown) ==
    CASE outcome = "return" -> cs
      [] outcome = "throwError" ->
            [cs EXCEPT ![own] =
                addFailure(@, <<"Review execution failed: ", thrown>>, None, None)]
      [] outcome = "throwOther" -> cs

\* executeReviewFile: the collectors after the try/catch around
\* "await reviewFunction(review)"; own is the evaluator's collector and
\* thrown the Error's message or the thrown value
executeReviewFile(cs, own, outcome, thrown) ==
    CASE outcome = "return" -> cs
      [] outcome = "throwError" ->
            [cs EXCEPT ![own] =
                addFailure(@, <<"Review execution failed: ", thrown>>, None, None)]
      [] outcome = "throwOther" ->
            [cs EXCEPT ![own] =
                addFailure(@, <<"Review execution failed with unknown error: ", thrown>>,
                           None, None)]

\* the passed and exitCode fields of the object evaluate() returns; results
\* is the collector itself, not a copy
evaluationResult(cs, own) ==
    [results |-> own, passed |-> ~hasFailures(cs[own]), exitCode |-> getExitCode(cs[own])]


(***************************************************************************)
(* State.                                                                  *)
(***************************************************************************)
VARIABLES
    backend,     \* what the version-control backend answers to a Git instance used alone
    git,         \* that instance's fields
    gitCalls,    \* how many initialize() calls it has completed
    lastQuery,   \* the last fileMatch / hasChanges call on it and its result
    collectors,  \* the results of each ResultsCollector of the process
    env,         \* process.env
    ev,          \* the evaluate() calls: position, options, locals, returned object
    hist,        \* what happened in an evaluation: inputs it met, calls its rule made
    started,     \* evaluate() calls begun so far; the e-th call is evaluation e
    cmd,         \* the command (or library caller) that runs the process
    collectorCalls, \* the calls made directly on a ResultsCollector, in order
    lastCall,    \* the last of these calls: its name, its target, its arguments
    rendered,    \* what formatAsMarkdown() returned, until the next call
    loader       \* the loader functions called directly: inputs, position, results

gitVars == <<backend, git, gitCalls, lastQuery>>

pipelineVars == <<collectors, env, ev, hist, started, cmd>>

unitVars == <<collectorCalls, lastCall, rendered, loader>>

vars == <<backend, git, gitCalls, lastQuery, collectors, env, ev, hist, started, cmd,
          collectorCalls, lastCall, rendered, loader>>

Evals == 1..MaxEvals

\* op: the call; patterns, match, all: the argument of fileMatch, the FileMatch
\* it returned and what getAll() of that object returned; p: the argument of
\* matches(); answer: the boolean hasChanges or matches returned
NoQuery ==
    [op |-> "none", patterns |-> <<>>,
     match |-> [edited |-> <<>>, created |-> <<>>, deleted |-> <<>>],
     all |-> <<>>, p |-> <<>>, answer |-> FALSE]

IdleEval ==
    [pc |-> "idle", collector |-> "global", enableGitHub |-> TRUE,
     reviewFile |-> None, review |-> None, error |-> "", result |-> None]

NoHistory ==
    [answers |-> None, githubInitFailed |-> FALSE, loaded |-> FALSE, invoked |-> 0,
     calls |-> [message |-> 0, warn |-> 0, fail |-> 0, markdown |-> 0],
     outcome |-> "pending", overlapped |-> FALSE, returned |-> None, fetched |-> 0]

\* no call made directly on a collector
NoCall == [op |-> "none", on |-> "custom", text |-> <<>>, file |-> None, line |-> None]

\* no loader function called directly
IdleLoader ==
    [pc |-> "idle", providedPath |-> <<>>, existing |-> {}, module |-> "Function",
     info |-> None, error |-> ""]

IdleCommand(name) ==
    [name |-> name, pc |-> "start", exitCode |-> None, reportPrinted |-> FALSE,
     commentsPosted |-> 0, crashed |-> FALSE, posting |-> None]

Finished(e) == ev[e].pc \in {"returned", "rejected"}

InFlight(e) == ev[e].pc \in {"context", "load", "exec", "collect"}

(***************************************************************************)
(* The Git class used alone, as in dsl/git.test.ts: new Git(), one         *)
(* initialize(), then queries.                                             *)
(***************************************************************************)
InitGit ==
    /\ backend \in BackendAnswers
    /\ git = NewGit
    /\ gitCalls = 0
    /\ lastQuery = NoQuery
    /\ collectors = [c \in CollectorNames |-> EmptyResults]
    /\ env \in {x \in Environments : ~x.GITHUB_ACTIONS /\ ~x.GITHUB_REPOSITORY
                                      /\ ~x.GITHUB_PR_NUMBER}
    /\ ev = [e \in Evals |-> IdleEval]
    /\ hist = [e \in Evals |-> NoHistory]
    /\ started = 0
    /\ cmd = IdleCommand("api")
    /\ collectorCalls = <<>>
    /\ lastCall = NoCall
    /\ rendered = None
    /\ loader = IdleLoader

\* await git.initialize(base)
GitInitialize ==
    /\ gitCalls = 0
    /\ git' = Git_initialize(git, backend)
    /\ gitCalls' = gitCalls + 1
    /\ UNCHANGED <<backend, lastQuery>>
    /\ UNCHANGED <<pipelineVars, unitVars>>

\* git.fileMatch(pattern)
GitFileMatch ==
    /\ gitCalls > 0
    /\ \E patterns \in PatternArgs :
          lastQuery' = [op |-> "fileMatch", patterns |-> patterns,
                        match |-> fileMatch(git, patterns),
                        all |-> getAll(fileMatch(git, patterns)),
                        p |-> <<>>, answer |-> FALSE]
    /\ UNCHANGED <<backend, git, gitCalls>>
    /\ UNCHANGED <<pipelineVars, unitVars>>

\* git.hasChanges(pattern)
GitHasChanges ==
    /\ gitCalls > 0
    /\ \E patterns \in PatternArgs :
          lastQuery' = [op |-> "hasChanges", patterns |-> patterns,
                        match |-> NoQuery.match, all |-> <<>>, p |-> <<>>,
                        answer |-> hasChanges(git, patterns)]
    /\ UNCHANGED <<backend, git, gitCalls>>
    /\ UNCHANGED <<pipelineVars, unitVars>>

NextGit == GitInitialize \/ GitFileMatch \/ GitHasChanges

SpecGit == InitGit /\ [][NextGit]_vars

(***************************************************************************)
(* One Git instance whose initialize() is called a second time, the        *)
(* backend answering as it did the first time.                             *)
(***************************************************************************)
\* await git.initialize(base), again on the same instance
GitInitializeAgain ==
    /\ gitCalls = 1
    /\ git' = Git_initialize(git, backend)
    /\ gitCalls' = gitCalls + 1
    /\ UNCHANGED <<backend, lastQuery>>
    /\ UNCHANGED <<pipelineVars, unitVars>>

NextReinit == GitInitialize \/ GitInitializeAgain

SpecReinit == InitGit /\ [][NextReinit]_vars

(***************************************************************************)
(* The queries of the Git class, as in the fileMatch() and hasChanges()    *)
(* tests of dsl/git.test.ts: the backend answers both queries of           *)
(* initialize(), with an empty log.                                        *)
(***************************************************************************)
MatchAnswers ==
    {b \in BackendAnswers : ~b.diffFails /\ ~b.logFails /\ b.log = <<>>}

InitMatch ==
    /\ backend \in MatchAnswers
    /\ git = NewGit
    /\ gitCalls = 0
    /\ lastQuery = NoQuery
    /\ collectors = [c \in CollectorNames |-> EmptyResults]
    /\ env \in {x \in Environments : ~x.GITHUB_ACTIONS /\ ~x.GITHUB_REPOSITORY
                                      /\ ~x.GITHUB_PR_NUMBER}
    /\ ev = [e \in Evals |-> IdleEval]
    /\ hist = [e \in Evals |-> NoHistory]
    /\ started = 0
    /\ cmd = IdleCommand("api")
    /\ collectorCalls = <<>>
    /\ lastCall = NoCall
    /\ rendered = None
    /\ loader = IdleLoader

\* match.matches(p) on the FileMatch object the last fileMatch call returned
GitMatches ==
    /\ gitCalls > 0
    /\ lastQuery.op \in {"fileMatch", "matches"}
    /\ \E p \in Globs :
          lastQuery' = [lastQuery EXCEPT !.op = "matches", !.p = p,
                                         !.answer = matches(git, p)]
    /\ UNCHANGED <<backend, git, gitCalls>>
    /\ UNCHANGED <<pipelineVars, unitVars>>

NextMatch == GitInitialize \/ GitFileMatch \/ GitHasChanges \/ GitMatches

SpecMatch == InitMatch /\ [][NextMatch]_vars

(***************************************************************************)
(* One evaluate() call, cut at its awaits.                                 *)
(***************************************************************************)
\* The inputs the pipeline meets.
ReviewFilePaths == {<<"reviewfile", ".ts">>}

FileSystems == {{}, {<<"reviewfile", ".ts">>}, {<<"reviewfile", ".js">>, <<"reviewfile", ".mjs">>}}

FirstEntry ==
    [file |-> AllPaths[1], insertions |-> MaxLines, deletions |-> 0, changes |-> MaxLines,
     binary |-> FALSE]

\* the backend answers of the repository the pipeline runs in
RepoAnswers ==
    {b \in BackendAnswers :
        /\ b.files \in {<<>>, <<FirstEntry>>}
        /\ \A i \in 1..Len(b.log) : i = 1 /\ b.log[i].hash = AllHashes[1]}

\* the text a rule of evaluation e reports, and the value it throws
Text(e) == <<"x", e>>

Thrown(e) == <<"boom", e>>

\* evaluate() without its first statement, resultsCollector.reset()
EvaluateBegin_NoReset(e, collector, enableGitHub, providedPath, existing, readable) ==
    LET reviewFile == findReviewFile(providedPath, existing)
        err == validateReviewFile(reviewFile, readable)
    IN  /\ e = started + 1
        /\ e \in Evals
        /\ started' = e
        /\ collectors' = collectors
        /\ ev' = [ev EXCEPT ![e] =
                    [pc |-> IF err = "ok" THEN "context" ELSE "rejected",
                     collector |-> collector, enableGitHub |-> enableGitHub,
                     reviewFile |-> Some(reviewFile), review |-> None,
                     error |-> IF err = "ok" THEN "" ELSE err,
                     result |-> None]]
        /\ hist' = [o \in Evals |->
                       IF o = e
                           THEN [NoHistory EXCEPT !.overlapped = \E i \in Evals : InFlight(i)]
                       ELSE IF Finished(o) THEN NoHistory
                       ELSE IF InFlight(o) THEN [hist[o] EXCEPT !.overlapped = TRUE]
                       ELSE hist[o]]

\* new RuleEvaluator(options).evaluate(), up to the first await: reset,
\* findReviewFile, validateReviewFile.  History of the evaluations that have
\* finished is dropped.
EvaluateBegin(e, collector, enableGitHub, providedPath, existing, readable) ==
    LET reviewFile == findReviewFile(providedPath, existing)
        err == validateReviewFile(reviewFile, readable)
    IN  /\ e = started + 1
        /\ e \in Evals
        /\ started' = e
        /\ collectors' = [collectors EXCEPT ![collector] = reset(@)]
        /\ ev' = [ev EXCEPT ![e] =
                    [pc |-> IF err = "ok" THEN "context" ELSE "rejected",
                     collector |-> collector, enableGitHub |-> enableGitHub,
                     reviewFile |-> Some(reviewFile), review |-> None,
                     error |-> IF err = "ok" THEN "" ELSE err,
                     result |-> None]]
        /\ hist' = [o \in Evals |->
                       IF o = e
                           THEN [NoHistory EXCEPT !.overlapped = \E i \in Evals : InFlight(i)]
                       ELSE IF Finished(o) THEN NoHistory
                       ELSE IF InFlight(o) THEN [hist[o] EXCEPT !.overlapped = TRUE]
                       ELSE hist[o]]

\* const review = await createReviewContext({...}); repo: what the backend may answer
CreateContext(e, repo) ==
    /\ ev[e].pc = "context"
    /\ \E answers \in repo, fetches \in FetchOutcomes :
          /\ ev' = [ev EXCEPT ![e].pc = "load",
                              ![e].review =
                                  Some(createReviewContext(ev[e].enableGitHub, env,
                                                           answers, fetches))]
          /\ hist' = [hist EXCEPT ![e].answers = Some(answers),
                                  ![e].githubInitFailed =
                                      githubInitFailed(ev[e].enableGitHub, env, fetches),
                                  ![e].fetched =
                                      githubFetches(ev[e].enableGitHub, env, fetches)]
    /\ UNCHANGED <<collectors, env, started, cmd>>
    /\ UNCHANGED <<gitVars, unitVars>>

\* an evaluate() that turns a rejection of loadReviewFile into a failure finding
LoadReviewFile_FailureAsFinding(e, imports) ==
    /\ ev[e].pc = "load"
    /\ \E outcome \in imports :
          LET err == loadReviewFile(outcome)
          IN  IF err = "ok"
                THEN /\ ev' = [ev EXCEPT ![e].pc = "exec"]
                     /\ hist' = [hist EXCEPT ![e].loaded = TRUE,
                                             ![e].invoked = @ + 1]
                     /\ collectors' = collectors
                ELSE /\ ev' = [ev EXCEPT ![e].pc = "collect"]
                     /\ hist' = [hist EXCEPT ![e].outcome = "return"]
                     /\ collectors' = [collectors EXCEPT ![ev[e].collector] =
                                           addFailure(@, <<err>>, None, None)]
    /\ UNCHANGED <<env, started, cmd>>
    /\ UNCHANGED <<gitVars, unitVars>>

\* const reviewFunction = await loadReviewFile(...); on success
\* executeReviewFile calls reviewFunction(review); imports: what import() may do
LoadReviewFile(e, imports) ==
    /\ ev[e].pc = "load"
    /\ \E outcome \in imports :
          LET err == loadReviewFile(outcome)
          IN  IF err = "ok"
                THEN /\ ev' = [ev EXCEPT ![e].pc = "exec"]
                     /\ hist' = [hist EXCEPT ![e].loaded = TRUE,
                                             ![e].invoked = @ + 1]
                ELSE /\ ev' = [ev EXCEPT ![e].pc = "rejected", ![e].error = err]
                     /\ hist' = [hist EXCEPT ![e].loaded =
                                     outcome \in {"NoDefault", "NonFunctionDefault"}]
    /\ UNCHANGED <<collectors, env, started, cmd>>
    /\ UNCHANGED <<gitVars, unitVars>>

RuleCalls(e) ==
    hist[e].calls.message + hist[e].calls.warn + hist[e].calls.fail + hist[e].calls.markdown

\* the rule function calls message(), warn(), fail() or markdown(); limit
\* bounds the calls of one run
RuleMessage(e, limit) ==
    /\ ev[e].pc = "exec" /\ RuleCalls(e) < limit
    /\ collectors' = message(collectors, Text(e), None, None)
    /\ hist' = [hist EXCEPT ![e].calls.message = @ + 1]
    /\ UNCHANGED <<env, ev, started, cmd>>
    /\ UNCHANGED <<gitVars, unitVars>>

RuleWarn(e, limit) ==
    /\ ev[e].pc = "exec" /\ RuleCalls(e) < limit
    /\ collectors' = warn(collectors, Text(e), None, None)
    /\ hist' = [hist EXCEPT ![e].calls.warn = @ + 1]
    /\ UNCHANGED <<env, ev, started, cmd>>
    /\ UNCHANGED <<gitVars, unitVars>>

RuleFail(e, limit) ==
    /\ ev[e].pc = "exec" /\ RuleCalls(e) < limit
    /\ collectors' = fail(collectors, Text(e), None, None)
    /\ hist' = [hist EXCEPT ![e].calls.fail = @ + 1]
    /\ UNCHANGED <<env, ev, started, cmd>>
    /\ UNCHANGED <<gitVars, unitVars>>

RuleMarkdown(e, limit) ==
    /\ ev[e].pc = "exec" /\ RuleCalls(e) < limit
    /\ collectors' = markdown(collectors, Text(e))
    /\ hist' = [hist EXCEPT ![e].calls.markdown = @ + 1]
    /\ UNCHANGED <<env, ev, started, cmd>>
    /\ UNCHANGED <<gitVars, unitVars>>

\* the promise of the rule function settles: executeReviewFile's try/catch
RuleSettles(e) ==
    /\ ev[e].pc = "exec"
    /\ \E outcome \in RuleOutcomes :
          /\ collectors' = executeReviewFile(collectors, ev[e].collector, outcome, Thrown(e))
          /\ hist' = [hist EXCEPT ![e].outcome = outcome]
    /\ ev' = [ev EXCEPT ![e].pc = "collect"]
    /\ UNCHANGED <<env, started, cmd>>
    /\ UNCHANGED <<gitVars, unitVars>>

\* a return that does not await executeReviewFile
ReturnResult_NoAwait(e) ==
    /\ ev[e].pc \in {"exec", "collect"}
    /\ ev' = [ev EXCEPT ![e].pc = "returned",
                        ![e].result = Some(evaluationResult(collectors, ev[e].collector))]
    /\ hist' = [hist EXCEPT ![e].returned = Some(collectors[ev[e].collector])]
    /\ UNCHANGED <<collectors, env, started, cmd>>
    /\ UNCHANGED <<gitVars, unitVars>>

\* return { review, results, reviewFile, passed, exitCode }
ReturnResult(e) ==
    /\ ev[e].pc = "collect"
    /\ ev' = [ev EXCEPT ![e].pc = "returned",
                        ![e].result = Some(evaluationResult(collectors, ev[e].collector))]
    /\ hist' = [hist EXCEPT ![e].returned = Some(collectors[ev[e].collector])]
    /\ UNCHANGED <<collectors, env, started, cmd>>
    /\ UNCHANGED <<gitVars, unitVars>>

(***************************************************************************)
(* The commands (commands/local.ts, run.ts, review.ts) and a library       *)
(* caller of RuleEvaluator.                                                *)
(***************************************************************************)
\* process.exit(code) from the command's try block or from its catch block
exit(c, code, printed, posted, crashed) ==
    [c EXCEPT !.pc = "exited", !.exitCode = Some(code), !.reportPrinted = printed,
              !.commentsPosted = posted, !.crashed = crashed]

\* what fs.existsSync and fs.accessSync find: a file that exists may be unreadable
Readable(existing) == {existing, {}}

\* localCommand up to "await evaluator.evaluate()"
LocalCommand ==
    /\ cmd.name = "local" /\ cmd.pc = "start"
    /\ \E path \in ReviewFilePaths, existing \in FileSystems :
          \E readable \in Readable(existing) :
              EvaluateBegin(1, "global", FALSE, path, existing, readable)
    /\ cmd' = [cmd EXCEPT !.pc = "evaluating"]
    /\ UNCHANGED env
    /\ UNCHANGED <<gitVars, unitVars>>

\* extractPRFromRef of run.ts
extractPRFromRef(environment) == environment.GITHUB_REF = "pull"

\* runCommand up to "await evaluator.evaluate()": owner, repo, pr tell which
\* of --owner, --repo, --pr are given
RunCommand ==
    /\ cmd.name = "run" /\ cmd.pc = "start"
    /\ \E owner \in BOOLEAN, repo \in BOOLEAN, pr \in BOOLEAN :
          IF /\ owner \/ env.GITHUB_REPOSITORY
             /\ repo \/ env.GITHUB_REPOSITORY
             /\ pr \/ env.GITHUB_PR_NUMBER \/ extractPRFromRef(env)
            THEN /\ env' = [env EXCEPT !.GITHUB_REPOSITORY = TRUE, !.GITHUB_PR_NUMBER = TRUE]
                 /\ \E path \in ReviewFilePaths, existing \in FileSystems :
                       \E readable \in Readable(existing) :
                           EvaluateBegin(1, "global", TRUE, path, existing, readable)
                 /\ cmd' = [cmd EXCEPT !.pc = "evaluating"]
            ELSE /\ cmd' = exit(cmd, 1, FALSE, 0, FALSE)
                 /\ UNCHANGED <<collectors, env, ev, hist, started>>
    /\ UNCHANGED <<gitVars, unitVars>>

\* reviewCommand up to "await evaluator.evaluate()"; github is options.github !== false
ReviewCommand ==
    /\ cmd.name = "review" /\ cmd.pc = "start"
    /\ \E github \in BOOLEAN, path \in ReviewFilePaths, existing \in FileSystems :
          \E readable \in Readable(existing) :
              EvaluateBegin(1, "global", github, path, existing, readable)
    /\ cmd' = [cmd EXCEPT !.pc = "evaluating"]
    /\ UNCHANGED env
    /\ UNCHANGED <<gitVars, unitVars>>

\* a program that uses the library: new RuleEvaluator(options).evaluate()
ApiEvaluate ==
    /\ cmd.name = "api"
    /\ started = 0
    /\ \E collector \in CollectorNames, enableGitHub \in BOOLEAN,
          path \in ReviewFilePaths \cup {<<>>}, existing \in FileSystems :
          \E readable \in Readable(existing) :
              EvaluateBegin(started + 1, collector, enableGitHub, path, existing, readable)
    /\ UNCHANGED <<env, cmd>>
    /\ UNCHANGED <<gitVars, unitVars>>

\* whether reading a field of result.review.github.pr throws: the adapter
\* object is there but its pr was never assigned
prReadThrows(review) == IsSome(review.github) /\ ~IsSome(Get(review.github).pr)

\* localCommand after evaluate(): the report and process.exit, or the catch block
LocalFinish ==
    /\ cmd.name = "local" /\ cmd.pc = "evaluating" /\ Finished(1)
    /\ cmd' = IF ev[1].pc = "rejected"
                 THEN exit(cmd, 1, FALSE, 0, FALSE)
                 ELSE exit(cmd, Get(ev[1].result).exitCode, TRUE, 0, FALSE)
    /\ UNCHANGED <<collectors, env, ev, hist, started>>
    /\ UNCHANGED <<gitVars, unitVars>>

\* the options and the environment the posting step of runCommand reads, and
\* whether its try block threw
PostingStep(post, token, dryRun, failed) ==
    Some([post |-> post, token |-> token, dryRun |-> dryRun, failed |-> failed])

\* runCommand whose posting step has no try/catch of its own: a failure
\* reaches the catch block of the command
RunFinish_PostFailureFatal ==
    /\ cmd.name = "run" /\ cmd.pc = "evaluating" /\ Finished(1)
    /\ \E verbose \in BOOLEAN, post \in BOOLEAN, dryRun \in BOOLEAN, token \in BOOLEAN,
          fetches \in FetchOutcomes, commentOk \in BOOLEAN :
          LET posting == post /\ token /\ ~dryRun
              posted == /\ posting
                        /\ ~GitHub_initialize(NewGitHub, env, fetches).rejected
                        /\ commentOk
          IN  cmd' = IF ev[1].pc = "rejected"
                        THEN exit(cmd, 1, FALSE, 0, FALSE)
                     ELSE IF verbose /\ prReadThrows(Get(ev[1].review))
                        THEN exit(cmd, 1, FALSE, 0, TRUE)
                     ELSE IF posting /\ ~posted
                        THEN [exit(cmd, 1, TRUE, 0, FALSE)
                                 EXCEPT !.posting = PostingStep(post, token, dryRun, TRUE)]
                     ELSE [exit(cmd, Get(ev[1].result).exitCode, TRUE,
                                IF posted THEN 1 ELSE 0, FALSE)
                              EXCEPT !.posting = PostingStep(post, token, dryRun, FALSE)]
    /\ UNCHANGED <<collectors, env, ev, hist, started>>
    /\ UNCHANGED <<gitVars, unitVars>>

\* runCommand after evaluate(): PR info when verbose, the report, the comment
\* when posting is on, process.exit; or the catch block
RunFinish ==
    /\ cmd.name = "run" /\ cmd.pc = "evaluating" /\ Finished(1)
    /\ \E verbose \in BOOLEAN, post \in BOOLEAN, dryRun \in BOOLEAN, token \in BOOLEAN,
          fetches \in FetchOutcomes, commentOk \in BOOLEAN :
          LET posting == post /\ token /\ ~dryRun
              posted == /\ posting
                        /\ ~GitHub_initialize(NewGitHub, env, fetches).rejected
                        /\ commentOk
          IN  cmd' = IF ev[1].pc = "rejected"
                        THEN exit(cmd, 1, FALSE, 0, FALSE)
                     ELSE IF verbose /\ prReadThrows(Get(ev[1].review))
                        THEN exit(cmd, 1, FALSE, 0, TRUE)
                     ELSE [exit(cmd, Get(ev[1].result).exitCode, TRUE,
                                IF posted THEN 1 ELSE 0, FALSE)
                              EXCEPT !.posting =
                                  PostingStep(post, token, dryRun, posting /\ ~posted)]
    /\ UNCHANGED <<collectors, env, ev, hist, started>>
    /\ UNCHANGED <<gitVars, unitVars>>

\* reviewCommand after evaluate()
ReviewFinish ==
    /\ cmd.name = "review" /\ cmd.pc = "evaluating" /\ Finished(1)
    /\ \E verbose \in BOOLEAN :
          cmd' = IF ev[1].pc = "rejected"
                    THEN exit(cmd, 1, FALSE, 0, FALSE)
                 ELSE IF verbose /\ prReadThrows(Get(ev[1].review))
                    THEN exit(cmd, 1, FALSE, 0, TRUE)
                 ELSE exit(cmd, Get(ev[1].result).exitCode, TRUE, 0, FALSE)
    /\ UNCHANGED <<collectors, env, ev, hist, started>>
    /\ UNCHANGED <<gitVars, unitVars>>

(***************************************************************************)
(* One process: a command, or a library caller, running one evaluation.    *)
(***************************************************************************)
UnusedBackend == [diffFails |-> TRUE, files |-> <<>>, logFails |-> TRUE, log |-> <<>>]

Init ==
    /\ backend = UnusedBackend
    /\ git = NewGit
    /\ gitCalls = 0
    /\ lastQuery = NoQuery
    /\ collectors = [c \in CollectorNames |-> EmptyResults]
    /\ env \in Environments
    /\ ev = [e \in Evals |-> IdleEval]
    /\ hist = [e \in Evals |-> NoHistory]
    /\ started = 0
    /\ cmd \in {IdleCommand(n) : n \in {"local", "run", "review", "api"}}
    /\ collectorCalls = <<>>
    /\ lastCall = NoCall
    /\ rendered = None
    /\ loader = IdleLoader

Next ==
    \/ LocalCommand
    \/ RunCommand
    \/ ReviewCommand
    \/ ApiEvaluate
    \/ \E e \in Evals : CreateContext(e, RepoAnswers)
    \/ \E e \in Evals : LoadReviewFile(e, ImportOutcomes)
    \/ \E e \in Evals : RuleMessage(e, MaxRuleOps)
    \/ \E e \in Evals : RuleWarn(e, MaxRuleOps)
    \/ \E e \in Evals : RuleFail(e, MaxRuleOps)
    \/ \E e \in Evals : RuleMarkdown(e, MaxRuleOps)
    \/ \E e \in Evals : RuleSettles(e)
    \/ \E e \in Evals : ReturnResult(e)
    \/ LocalFinish
    \/ RunFinish
    \/ ReviewFinish

Spec == Init /\ [][Next]_vars

(***************************************************************************)
(* One process whose caller runs evaluations one after another, each       *)
(* awaited before the next begins (the evaluator tests' setting: GitHub    *)
(* off, the reviewfile in place).                                          *)
(***************************************************************************)
SeqAnswers ==
    {b \in RepoAnswers : ~b.diffFails /\ ~b.logFails /\ Len(b.files) = 1 /\ Len(b.log) = 1}

SeqImports == {"Function", "NoDefault"}

InitSeq ==
    /\ backend = UnusedBackend
    /\ git = NewGit
    /\ gitCalls = 0
    /\ lastQuery = NoQuery
    /\ collectors = [c \in CollectorNames |-> EmptyResults]
    /\ env \in {x \in Environments : ~x.GITHUB_ACTIONS /\ ~x.GITHUB_REPOSITORY
                                      /\ ~x.GITHUB_PR_NUMBER}
    /\ ev = [e \in Evals |-> IdleEval]
    /\ hist = [e \in Evals |-> NoHistory]
    /\ started = 0
    /\ cmd = IdleCommand("api")
    /\ collectorCalls = <<>>
    /\ lastCall = NoCall
    /\ rendered = None
    /\ loader = IdleLoader

\* await new RuleEvaluator(options).evaluate(), once the previous call has settled
SeqEvaluate ==
    /\ \A o \in Evals : ~InFlight(o)
    /\ \E collector \in CollectorNames, path \in ReviewFilePaths :
          EvaluateBegin(started + 1, collector, FALSE, path, {path}, {path})
    /\ UNCHANGED <<env, cmd>>
    /\ UNCHANGED <<gitVars, unitVars>>

NextSeq ==
    \/ SeqEvaluate
    \/ \E e \in Evals : CreateContext(e, SeqAnswers)
    \/ \E e \in Evals : LoadReviewFile(e, SeqImports)
    \/ \E e \in Evals : RuleMessage(e, MaxSeqRuleOps)
    \/ \E e \in Evals : RuleWarn(e, MaxSeqRuleOps)
    \/ \E e \in Evals : RuleFail(e, MaxSeqRuleOps)
    \/ \E e \in Evals : RuleMarkdown(e, MaxSeqRuleOps)
    \/ \E e \in Evals : RuleSettles(e)
    \/ \E e \in Evals : ReturnResult(e)

SpecSeq == InitSeq /\ [][NextSeq]_vars

(***************************************************************************)
(* One process that starts an evaluation on the process-global collector   *)
(* while another one is still in flight, e.g. Promise.all of two           *)
(* evaluate() calls.                                                       *)
(***************************************************************************)
ConcAnswers == {b \in SeqAnswers : b.files = <<FirstEntry>>}

InitConc ==
    /\ backend = UnusedBackend
    /\ git = NewGit
    /\ gitCalls = 0
    /\ lastQuery = NoQuery
    /\ collectors = [c \in CollectorNames |-> EmptyResults]
    /\ env \in {x \in Environments : ~x.GITHUB_ACTIONS /\ ~x.GITHUB_REPOSITORY
                                      /\ ~x.GITHUB_PR_NUMBER}
    /\ ev = [e \in Evals |-> IdleEval]
    /\ hist = [e \in Evals |-> NoHistory]
    /\ started = 0
    /\ cmd = IdleCommand("api")
    /\ collectorCalls = <<>>
    /\ lastCall = NoCall
    /\ rendered = None
    /\ loader = IdleLoader

\* new RuleEvaluator({resultsCollector: globalResultsCollector}).evaluate()
\* with at most one other evaluation in flight
ConcEvaluate ==
    /\ Cardinality({o \in Evals : InFlight(o)}) < 2
    /\ \E path \in ReviewFilePaths :
          EvaluateBegin(started + 1, "global", FALSE, path, {path}, {path})
    /\ UNCHANGED <<env, cmd>>
    /\ UNCHANGED <<gitVars, unitVars>>

NextConc ==
    \/ ConcEvaluate
    \/ \E e \in Evals : CreateContext(e, ConcAnswers)
    \/ \E e \in Evals : LoadReviewFile(e, {"Function"})
    \/ \E e \in Evals : RuleWarn(e, MaxSeqRuleOps)
    \/ \E e \in Evals : RuleFail(e, MaxSeqRuleOps)
    \/ \E e \in Evals : RuleSettles(e)
    \/ \E e \in Evals : ReturnResult(e)

SpecConc == InitConc /\ [][NextConc]_vars

(***************************************************************************)
(* A ResultsCollector used alone, as in dsl/functions.test.ts: the caller  *)
(* makes up to MaxCollectorOps calls on a collector of its own.            *)
(***************************************************************************)
\* the file and line arguments of addMessage / addWarning / addFailure
Locations == {[file |-> None, line |-> None], [file |-> Some(AllPaths[1]), line |-> Some(1)]}

\* the texts a caller reports: a plain one, and one that reads like a part of
\* the report itself
PlainTexts == {<<"fix this">>}

Texts == PlainTexts \cup {<<"2", " failure(s)", "\n", "### Failures", "\n", "- ", "x">>}

InitCollector ==
    /\ backend = UnusedBackend
    /\ git = NewGit
    /\ gitCalls = 0
    /\ lastQuery = NoQuery
    /\ collectors = [c \in CollectorNames |-> EmptyResults]
    /\ env \in {x \in Environments : ~x.GITHUB_ACTIONS /\ ~x.GITHUB_REPOSITORY
                                      /\ ~x.GITHUB_PR_NUMBER}
    /\ ev = [e \in Evals |-> IdleEval]
    /\ hist = [e \in Evals |-> NoHistory]
    /\ started = 0
    /\ cmd = IdleCommand("api")
    /\ collectorCalls = <<>>
    /\ lastCall = NoCall
    /\ rendered = None
    /\ loader = IdleLoader

\* one more call op(text, file, line) on collector on, which turns the
\* collectors into cs
CollectorCall(op, on, text, file, line, cs) ==
    /\ Len(collectorCalls) < MaxCollectorOps
    /\ collectors' = cs
    /\ collectorCalls' = Append(collectorCalls, op)
    /\ lastCall' = [op |-> op, on |-> on, text |-> text, file |-> file, line |-> line]
    /\ rendered' = None
    /\ UNCHANGED <<env, ev, hist, started, cmd, loader>>
    /\ UNCHANGED gitVars

CollectorAddMessage ==
    \E text \in Texts, at \in Locations :
        CollectorCall("addMessage", "custom", text, at.file, at.line,
            [collectors EXCEPT !["custom"] = addMessage(@, text, at.file, at.line)])

CollectorAddWarning ==
    \E text \in Texts, at \in Locations :
        CollectorCall("addWarning", "custom", text, at.file, at.line,
            [collectors EXCEPT !["custom"] = addWarning(@, text, at.file, at.line)])

CollectorAddFailure ==
    \E text \in Texts, at \in Locations :
        CollectorCall("addFailure", "custom", text, at.file, at.line,
            [collectors EXCEPT !["custom"] = addFailure(@, text, at.file, at.line)])

CollectorAddMarkdown ==
    \E text \in Texts :
        CollectorCall("addMarkdown", "custom", text, None, None,
            [collectors EXCEPT !["custom"] = addMarkdown(@, text)])

CollectorReset ==
    CollectorCall("reset", "custom", <<>>, None, None,
        [collectors EXCEPT !["custom"] = reset(@)])

\* message(), warn(), fail(), markdown() of dsl/functions.ts called by the
\* same caller
AmbientMessage ==
    \E text \in PlainTexts, at \in Locations :
        CollectorCall("message", "global", text, at.file, at.line,
            message(collectors, text, at.file, at.line))

AmbientWarn ==
    \E text \in PlainTexts, at \in Locations :
        CollectorCall("warn", "global", text, at.file, at.line,
            warn(collectors, text, at.file, at.line))

AmbientFail ==
    \E text \in PlainTexts, at \in Locations :
        CollectorCall("fail", "global", text, at.file, at.line,
            fail(collectors, text, at.file, at.line))

AmbientMarkdown ==
    \E text \in PlainTexts :
        CollectorCall("markdown", "global", text, None, None,
            markdown(collectors, text))

\* collector.formatAsMarkdown() on the caller's collector
CollectorFormat ==
    /\ rendered = None
    /\ rendered' = Some(formatAsMarkdown(collectors["custom"]))
    /\ UNCHANGED <<collectorCalls, lastCall, loader>>
    /\ UNCHANGED <<pipelineVars, gitVars>>

NextCollector ==
    \/ CollectorAddMessage
    \/ CollectorAddWarning
    \/ CollectorAddFailure
    \/ CollectorAddMarkdown
    \/ CollectorReset
    \/ AmbientMessage
    \/ AmbientWarn
    \/ AmbientFail
    \/ AmbientMarkdown
    \/ CollectorFormat

SpecCollector == InitCollector /\ [][NextCollector]_vars

(***************************************************************************)
(* The loader functions called one after another, as evaluate() calls      *)
(* them: findReviewFile, validateReviewFile, loadReviewFile.               *)
(***************************************************************************)
\* the reviewFilePath option: none, a default name, a name of the caller's
ProvidedPaths == {<<>>, <<"reviewfile", ".js">>, <<"rules", ".mts">>}

\* the files a project root may hold
RootFiles ==
    {<<"reviewfile", extensions[i]>> : i \in 1..Len(extensions)} \cup {<<"rules", ".mts">>}

InitLoader ==
    /\ backend = UnusedBackend
    /\ git = NewGit
    /\ gitCalls = 0
    /\ lastQuery = NoQuery
    /\ collectors = [c \in CollectorNames |-> EmptyResults]
    /\ env \in {x \in Environments : ~x.GITHUB_ACTIONS /\ ~x.GITHUB_REPOSITORY
                                      /\ ~x.GITHUB_PR_NUMBER}
    /\ ev = [e \in Evals |-> IdleEval]
    /\ hist = [e \in Evals |-> NoHistory]
    /\ started = 0
    /\ cmd = IdleCommand("api")
    /\ collectorCalls = <<>>
    /\ lastCall = NoCall
    /\ rendered = None
    /\ \E providedPath \in ProvidedPaths, existing \in SUBSET RootFiles,
          module \in ImportOutcomes :
          loader = [IdleLoader EXCEPT !.pc = "start", !.providedPath = providedPath,
                                      !.existing = existing, !.module = module]

\* const reviewFile = findReviewFile(reviewFilePath, projectRoot)
LoaderFind ==
    /\ loader.pc = "start"
    /\ loader' = [loader EXCEPT !.pc = "found",
                                !.info = Some(findReviewFile(loader.providedPath,
                                                             loader.existing))]
    /\ UNCHANGED <<pipelineVars, gitVars, collectorCalls, lastCall, rendered>>

\* validateReviewFile(reviewFile)
LoaderValidate ==
    /\ loader.pc = "found"
    /\ \E readable \in Readable(loader.existing) :
          LET err == validateReviewFile(Get(loader.info), readable)
          IN  loader' = IF err = "ok"
                            THEN [loader EXCEPT !.pc = "validated"]
                            ELSE [loader EXCEPT !.pc = "invalid", !.error = err]
    /\ UNCHANGED <<pipelineVars, gitVars, collectorCalls, lastCall, rendered>>

\* await loadReviewFile(reviewFile.absolutePath)
LoaderLoad ==
    /\ loader.pc = "validated"
    /\ LET err == loadReviewFile(loader.module)
       IN  loader' = IF err = "ok"
                         THEN [loader EXCEPT !.pc = "loaded"]
                         ELSE [loader EXCEPT !.pc = "loadFailed", !.error = err]
    /\ UNCHANGED <<pipelineVars, gitVars, collectorCalls, lastCall, rendered>>

NextLoader == LoaderFind \/ LoaderValidate \/ LoaderLoad

SpecLoader == InitLoader /\ [][NextLoader]_vars

(***************************************************************************)
(* Properties.                                                             *)
(***************************************************************************)
Throws(e) == hist[e].outcome \in {"throwError", "throwOther"}

Own(e) == collectors[ev[e].collector]

FailureCalls(e) == [i \in 1..hist[e].calls.fail |->
                        [level |-> "fail", message |-> Text(e), file |-> None, line |-> None]]

WrappedMessage(e) ==
    IF hist[e].outcome = "throwError"
        THEN <<"Review execution failed: ", Thrown(e)>>
        ELSE <<"Review execution failed with unknown error: ", Thrown(e)>>

\* C1: with the process-global collector, an evaluation whose rule function
\* called fail() n times and then threw (an Error or any other value) does not
\* reject: it returns, its failures are the n the rule recorded followed by
\* exactly one for the throw, passed is false and exitCode is 1.
C1_ThrowIsOneMoreFailure ==
    \A e \in Evals :
        (ev[e].collector = "global" /\ Throws(e) /\ Finished(e)) =>
            /\ ev[e].pc = "returned"
            /\ Len(Own(e).failures) = hist[e].calls.fail + 1
            /\ SubSeq(Own(e).failures, 1, hist[e].calls.fail) = FailureCalls(e)
            /\ Own(e).failures[hist[e].calls.fail + 1].message = WrappedMessage(e)
            /\ ~Get(ev[e].result).passed
            /\ Get(ev[e].result).exitCode = 1

C1_Witness ==
    \E e \in Evals :
        /\ ev[e].pc = "returned" /\ ev[e].collector = "global"
        /\ hist[e].outcome = "throwOther" /\ hist[e].calls.fail = 1
        /\ Len(Own(e).failures) = 2

\* C2: whichever collector the evaluator is configured with, the returned
\* passed is false exactly when a failure was recorded during the evaluation
\* (the rule called fail(), or its error was wrapped), and exitCode is 0 when
\* passed and 1 otherwise.
C2_PassedIffNoFailureRecorded ==
    \A e \in Evals :
        ev[e].pc = "returned" =>
            /\ ~Get(ev[e].result).passed <=> (hist[e].calls.fail > 0 \/ Throws(e))
            /\ Get(ev[e].result).exitCode = IF Get(ev[e].result).passed THEN 0 ELSE 1

\* C3: a command exits with 0 exactly when its evaluation recorded no failure
\* and with 1 otherwise; when evaluate() rejects the command exits with 1 and
\* the findings report is never printed.
C3_ExitCodeReflectsFailures ==
    (cmd.name \in {"local", "run", "review"} /\ cmd.pc = "exited") =>
        /\ Get(cmd.exitCode) \in {0, 1}
        /\ ev[1].pc = "returned" =>
              (Get(cmd.exitCode) = 0 <=> Len(collectors["global"].failures) = 0)
        /\ ev[1].pc = "rejected" => (Get(cmd.exitCode) = 1 /\ ~cmd.reportPrinted)

\* the evaluation a finding was recorded in
EvalOf(msg) ==
    IF msg[1] \in {"Review execution failed: ", "Review execution failed with unknown error: "}
        THEN msg[2][2] ELSE msg[2]

FindingEvals(r) ==
    {EvalOf(r.messages[i].message) : i \in 1..Len(r.messages)}
    \cup {EvalOf(r.warnings[i].message) : i \in 1..Len(r.warnings)}
    \cup {EvalOf(r.failures[i].message) : i \in 1..Len(r.failures)}
    \cup {EvalOf(r.markdowns[i]) : i \in 1..Len(r.markdowns)}

\* C4: in a process that runs evaluations one after another, the evaluator's
\* collector is empty from the start of an evaluation until its rule function
\* is invoked, and what it holds when the evaluation returns was all recorded
\* during that evaluation.
C4_NoLeakBetweenEvaluations ==
    \A e \in Evals :
        e = started =>
            /\ ev[e].pc \in {"context", "load"} => Own(e) = EmptyResults
            /\ (ev[e].pc \in {"exec", "collect", "returned"}) => FindingEvals(Own(e)) \subseteq {e}

C4_Witness ==
    /\ started = 2
    /\ ev[1].pc = "returned" /\ ev[1].collector = "global" /\ ~Get(ev[1].result).passed
    /\ ev[2].pc = "returned" /\ ev[2].collector = "global" /\ Get(ev[2].result).passed
    /\ Len(collectors["global"].messages) = 1

\* C5: an evaluation whose rule file does not exist at the resolved path
\* rejects with the not-found error; its collector holds no finding, no change
\* set has been built, no module loaded and the rule function not invoked.
C5_MissingFileRejectsFirst ==
    \A e \in Evals :
        (ev[e].pc /= "idle" /\ ~Get(ev[e].reviewFile).exists) =>
            /\ ev[e].pc = "rejected"
            /\ ev[e].error = "ReviewfileNotFound"
            /\ Own(e) = EmptyResults
            /\ ev[e].review = None
            /\ hist[e].answers = None
            /\ ~hist[e].loaded
            /\ hist[e].invoked = 0

C5_Witness ==
    \E e \in Evals :
        /\ ev[e].pc = "rejected" /\ ev[e].error = "ReviewfileNotFound"
        /\ ~Get(ev[e].reviewFile).exists

\* C6: when the hosting context is enabled and detected but the adapter's
\* initialize() fails, the context given to the rule function has no PR
\* context (review.github is undefined), the evaluation goes on without a
\* finding for the failure, and the change set is what the backend reported.
C6_NoPRContextAfterFailedInitialize ==
    \A e \in Evals :
        (IsSome(ev[e].review) /\ hist[e].githubInitFailed) =>
            /\ Get(ev[e].review).github = None
            /\ Get(ev[e].review).git = Git_initialize(NewGit, Get(hist[e].answers))
            /\ ev[e].pc = "load" => Own(e) = EmptyResults

\* C7: no partially populated PR context reaches the rule function: a
\* review.github whose pr is set has the reviews and the comments fetched.
C7_NoPartialPRContext ==
    \A e \in Evals :
        (ev[e].pc \in {"exec", "collect", "returned"} /\ IsSome(Get(ev[e].review).github)) =>
            LET gh == Get(Get(ev[e].review).github)
            IN  IsSome(gh.pr) => (gh.reviews = UpstreamReviews /\ gh.comments = UpstreamComments)

\* C8: when a backend query of Git.initialize() fails (the diff summary or
\* the log), the change set is empty: no created, modified or deleted file,
\* no diff, no commit.
C8_EmptyChangeSetOnBackendError ==
    (gitCalls > 0 /\ (backend.diffFails \/ backend.logFails)) => git = NewGit

InBucket(p, bucket) == p \in SeqToSet(bucket)

\* C9: every non-binary entry of the diff summary is classified by its line
\* counts: insertions only, created_files alone; deletions only,
\* deleted_files alone; both, modified_files alone; neither, no bucket.
C9_Classification ==
    (gitCalls > 0 /\ ~backend.diffFails) =>
        \A i \in 1..Len(backend.files) :
            LET f == backend.files[i]
                c == InBucket(f.file, git.created_files)
                m == InBucket(f.file, git.modified_files)
                d == InBucket(f.file, git.deleted_files)
            IN  ~f.binary =>
                    /\ (f.insertions > 0 /\ f.deletions = 0) => (c /\ ~m /\ ~d)
                    /\ (f.deletions > 0 /\ f.insertions = 0) => (d /\ ~c /\ ~m)
                    /\ (f.insertions > 0 /\ f.deletions > 0) => (m /\ ~c /\ ~d)
                    /\ (f.insertions = 0 /\ f.deletions = 0) => (~c /\ ~m /\ ~d)

C9_Witness ==
    /\ gitCalls > 0
    /\ Len(backend.files) = 2
    /\ \E i, j \in 1..Len(backend.files) :
          /\ ~backend.files[i].binary
          /\ backend.files[i].insertions > 0 /\ backend.files[i].deletions > 0
          /\ ~backend.files[j].binary
          /\ backend.files[j].insertions = 0 /\ backend.files[j].deletions = 0
    /\ Len(git.modified_files) = 1 /\ Len(git.diffs) = 2

NoRepeat(list) == Cardinality(SeqToSet(list)) = Len(list)

Buckets == <<git.created_files, git.modified_files, git.deleted_files>>

BucketsDisjoint ==
    /\ SeqToSet(git.created_files) \cap SeqToSet(git.modified_files) = {}
    /\ SeqToSet(git.created_files) \cap SeqToSet(git.deleted_files) = {}
    /\ SeqToSet(git.modified_files) \cap SeqToSet(git.deleted_files) = {}
    /\ NoRepeat(git.created_files)
    /\ NoRepeat(git.modified_files)
    /\ NoRepeat(git.deleted_files)

BucketsHolding(p) ==
    Cardinality({k \in 1..3 : InBucket(p, Buckets[k])})

\* C11 (as the spec states it): every path that appears in diffs appears in
\* exactly one of created_files, modified_files, deleted_files.
C11_EveryDiffPathInOneBucket ==
    gitCalls > 0 =>
        \A i \in 1..Len(git.diffs) : BucketsHolding(git.diffs[i].file) = 1

\* C11 (amended): a path of diffs whose entry has a nonzero change count
\* appears in exactly one bucket; a path of diffs whose entry has zero changes
\* appears in none.
C11_ChangedDiffPathInOneBucket ==
    gitCalls > 0 =>
        \A i \in 1..Len(git.diffs) :
            BucketsHolding(git.diffs[i].file) = IF git.diffs[i].changes > 0 THEN 1 ELSE 0

C11_Witness ==
    /\ gitCalls > 0
    /\ Len(git.diffs) = 2
    /\ git.diffs[1].changes = 0 /\ BucketsHolding(git.diffs[1].file) = 0
    /\ git.diffs[2].changes > 0 /\ BucketsHolding(git.diffs[2].file) = 1

\* the paths of a bucket that match at least one pattern of the list
MatchingAny(bucket, patterns) ==
    {x \in SeqToSet(bucket) : \E i \in 1..Len(patterns) : isMatch(x, patterns[i])}

NoneNegated(patterns) == \A i \in 1..Len(patterns) : ~negated(patterns[i])

\* the paths of a bucket that match a non-negated pattern of the list
MatchingPositive(bucket, patterns) ==
    {x \in SeqToSet(bucket) :
        \E i \in 1..Len(patterns) : ~negated(patterns[i]) /\ isMatch(x, patterns[i])}

\* the paths of a bucket that a negated pattern of the list excludes
Excluded(bucket, patterns) ==
    {x \in SeqToSet(bucket) :
        \E i \in 1..Len(patterns) : negated(patterns[i]) /\ ~isMatch(x, patterns[i])}

\* what OR semantics asks of one filtered list
ExactlyMatching(result, bucket, patterns) ==
    /\ SeqToSet(result) = MatchingAny(bucket, patterns)
    /\ NoRepeat(result)

FilteredByList(result, bucket, patterns) ==
    /\ NoRepeat(result)
    /\ SeqToSet(result) \subseteq SeqToSet(bucket)
    /\ (Len(patterns) = 1 \/ NoneNegated(patterns)) =>
            SeqToSet(result) = MatchingAny(bucket, patterns)
    /\ (Len(patterns) > 1 /\ ~NoneNegated(patterns)) =>
            /\ SeqToSet(result) \subseteq MatchingPositive(bucket, patterns)
            /\ MatchingPositive(bucket, patterns) \ Excluded(bucket, patterns)
                    \subseteq SeqToSet(result)

GetAllOf(patterns) == getAll(fileMatch(git, patterns))

\* C13 (as the spec states it): fileMatch([p1, p2]).getAll() contains every
\* path of fileMatch([p1]).getAll() and of fileMatch([p2]).getAll(), no path
\* twice, and only matched modified or created paths.
C13_GetAllIsSuperset ==
    (lastQuery.op = "fileMatch" /\ Len(lastQuery.patterns) = 2) =>
        /\ SeqToSet(GetAllOf(<<lastQuery.patterns[1]>>)) \subseteq SeqToSet(lastQuery.all)
        /\ SeqToSet(GetAllOf(<<lastQuery.patterns[2]>>)) \subseteq SeqToSet(lastQuery.all)
        /\ NoRepeat(lastQuery.all)
        /\ SeqToSet(lastQuery.all) \subseteq
                SeqToSet(lastQuery.match.edited) \cup SeqToSet(lastQuery.match.created)

\* C13 (amended): getAll() of any FileMatch holds no path twice and only its
\* matched modified and created paths; for p1, p2 neither of which is negated,
\* fileMatch([p1, p2]).getAll() is as a set the union of
\* fileMatch([p1]).getAll() and fileMatch([p2]).getAll().
C13_GetAllIsUnionUnlessNegated ==
    /\ lastQuery.op = "fileMatch" =>
          /\ NoRepeat(lastQuery.all)
          /\ SeqToSet(lastQuery.all) =
                SeqToSet(lastQuery.match.edited) \cup SeqToSet(lastQuery.match.created)
          /\ SeqToSet(lastQuery.all) \subseteq
                SeqToSet(git.modified_files) \cup SeqToSet(git.created_files)
          /\ (Len(lastQuery.patterns) = 2 /\ NoneNegated(lastQuery.patterns)) =>
                SeqToSet(lastQuery.all) =
                    SeqToSet(GetAllOf(<<lastQuery.patterns[1]>>))
                    \cup SeqToSet(GetAllOf(<<lastQuery.patterns[2]>>))
    /\ (gitCalls > 0 /\ lastQuery.op = "none") =>
          \A p1, p2 \in {x \in Globs : ~negated(x)} :
              /\ SeqToSet(GetAllOf(<<p1, p2>>)) =
                    SeqToSet(GetAllOf(<<p1>>)) \cup SeqToSet(GetAllOf(<<p2>>))
              /\ NoRepeat(GetAllOf(<<p1, p2>>))

C13_Witness ==
    /\ lastQuery.op = "fileMatch"
    /\ Len(lastQuery.patterns) = 2 /\ NoneNegated(lastQuery.patterns)
    /\ Len(lastQuery.match.edited) = 1 /\ Len(lastQuery.match.deleted) = 1
    /\ Len(lastQuery.all) = 1

\* every path of the change set, whatever its bucket
AllBucketPaths ==
    SeqToSet(git.modified_files) \cup SeqToSet(git.created_files)
        \cup SeqToSet(git.deleted_files)

\* C14: matches(p) of a FileMatch is true exactly when some path of
\* modified_files, created_files or deleted_files matches p, whatever
\* patterns the FileMatch was created with.
C14_MatchesReadsWholeChangeSet ==
    lastQuery.op = "matches" =>
        (lastQuery.answer <=> \E x \in AllBucketPaths : isMatch(x, lastQuery.p))

C14_Witness ==
    /\ lastQuery.op = "matches"
    /\ lastQuery.answer
    /\ lastQuery.patterns /= <<lastQuery.p>>
    /\ lastQuery.match = NoQuery.match
    /\ Len(git.deleted_files) = 1 /\ Len(git.modified_files) = 0
    /\ Len(git.created_files) = 0

\* C15: hasChanges(p) equals fileMatch(q).matches(p) for every p and q, and
\* hasChanges(patterns) is true exactly when fileMatch(patterns) has a
\* non-empty edited, created or deleted list.
C15_ExistencePathsAgree ==
    /\ lastQuery.op = "matches" =>
          (lastQuery.answer <=> hasChanges(git, <<lastQuery.p>>))
    /\ lastQuery.op = "hasChanges" =>
          LET match == fileMatch(git, lastQuery.patterns)
          IN  /\ lastQuery.answer <=>
                    (match.edited /= <<>> \/ match.created /= <<>> \/ match.deleted /= <<>>)
              /\ Len(lastQuery.patterns) = 1 =>
                    (lastQuery.answer <=> matches(git, lastQuery.patterns[1]))

C15_Witness ==
    /\ lastQuery.op = "hasChanges"
    /\ lastQuery.answer
    /\ Len(lastQuery.patterns) = 1
    /\ Len(git.deleted_files) = 1 /\ Len(git.modified_files) = 0
    /\ Len(git.created_files) = 0


\* the calls made on the caller's collector since the last reset()
RECURSIVE SinceReset(_)
SinceReset(calls) ==
    IF calls = <<>> THEN <<>>
    ELSE IF calls[Len(calls)] = "reset" THEN <<>>
    ELSE Append(SinceReset(SubSeq(calls, 1, Len(calls) - 1)), calls[Len(calls)])

\* C16: after any sequence of addMessage / addWarning / addFailure /
\* addMarkdown calls made since the last reset(), hasFailures() is true and
\* getExitCode() is 1 exactly when the sequence holds an addFailure call, and
\* getExitCode() is otherwise 0: it is never anything but 0 or 1.
C16_ExitCodeIffFailureAdded ==
    LET r == collectors["custom"]
        failed == "addFailure" \in SeqToSet(SinceReset(collectorCalls))
    IN  /\ hasFailures(r) <=> failed
        /\ getExitCode(r) = (IF failed THEN 1 ELSE 0)
        /\ getExitCode(r) \in {0, 1}

\* two failures and a message since the last reset: the exit code is still 1
C16_Witness ==
    /\ Len(SelectSeq(SinceReset(collectorCalls), LAMBDA op : op = "addFailure")) = 2
    /\ "addMessage" \in SeqToSet(SinceReset(collectorCalls))
    /\ Len(collectors["custom"].failures) = 2
    /\ getExitCode(collectors["custom"]) = 1

\* C17: right after reset(), whatever the collector held, its four lists are
\* empty, hasFailures() is false and getExitCode() is 0; and a second reset()
\* leaves the collector as the first one did.
C17_ResetEmptiesEverything ==
    LET r == collectors["custom"]
    IN  /\ (collectorCalls /= <<>> /\ collectorCalls[Len(collectorCalls)] = "reset") =>
              /\ r.messages = <<>> /\ r.warnings = <<>>
              /\ r.failures = <<>> /\ r.markdowns = <<>>
              /\ ~hasFailures(r)
              /\ getExitCode(r) = 0
        /\ reset(reset(r)) = reset(r)
        /\ (Len(collectorCalls) >= 2
            /\ collectorCalls[Len(collectorCalls)] = "reset"
            /\ collectorCalls[Len(collectorCalls) - 1] = "reset") => r = reset(r)

\* a collector that held a failure and a markdown block has just been reset
C17_Witness ==
    /\ collectorCalls = <<"addFailure", "addMarkdown", "reset">>
    /\ collectors["custom"] = EmptyResults


\* the default file names in the order the contract gives them
ProbeOrder == <<".ts", ".js", ".mts", ".mjs">>

\* the positions in ProbeOrder of the default files the root holds
Present(existing) == {k \in 1..Len(ProbeOrder) : <<"reviewfile", ProbeOrder[k]>> \in existing}

\* C19: findReviewFile with an explicit path returns that path, exists telling
\* whether the file system holds it; with no explicit path it returns the
\* first of reviewfile.ts, .js, .mts, .mjs that exists, and when none exists
\* it returns reviewfile.ts with exists = false.
C19_FindProbesInOrder ==
    loader.pc /= "start" /\ IsSome(loader.info) =>
        LET info == Get(loader.info)
            present == Present(loader.existing)
        IN  IF loader.providedPath /= <<>>
                THEN /\ info.path = loader.providedPath
                     /\ info.exists <=> loader.providedPath \in loader.existing
            ELSE IF present = {}
                THEN info.path = <<"reviewfile", ".ts">> /\ ~info.exists
            ELSE /\ info.exists
                 /\ \E k \in present :
                       /\ info.path = <<"reviewfile", ProbeOrder[k]>>
                       /\ \A j \in present : k <= j

\* no explicit path, no reviewfile.ts, both reviewfile.js and reviewfile.mts
\* present: reviewfile.js is returned
C19_Witness ==
    /\ loader.pc = "found"
    /\ loader.providedPath = <<>>
    /\ <<"reviewfile", ".ts">> \notin loader.existing
    /\ <<"reviewfile", ".js">> \in loader.existing
    /\ <<"reviewfile", ".mts">> \in loader.existing
    /\ Get(loader.info).path = <<"reviewfile", ".js">>
    /\ Get(loader.info).exists

\* the load-failure subkind an import outcome belongs to
Subkind(outcome) ==
    CASE outcome = "CannotFindModule" -> "moduleNotFound"
      [] outcome \in {"UnexpectedToken", "UnexpectedIdentifier"} -> "parseError"
      [] outcome \in {"NoDefault", "NonFunctionDefault"} -> "wrongShape"
      [] OTHER -> "none"

\* C20: loadReviewFile resolves only when the default export of the imported
\* module is a function and rejects in every other case; a rejection for one
\* of the subkinds module not found, parse error, wrong shape is never the
\* rejection that an import of another of these subkinds produces.
C20_LoadRejectsDistinguishably ==
    /\ loader.pc = "loaded" => loader.module = "Function"
    /\ loader.pc = "loadFailed" =>
          /\ loader.module /= "Function"
          /\ loader.error /= "ok" /\ loader.error /= ""
          /\ \A other \in ImportOutcomes :
                (/\ Subkind(loader.module) /= "none"
                 /\ Subkind(other) /= "none"
                 /\ Subkind(other) /= Subkind(loader.module))
                    => loadReviewFile(other) /= loader.error

\* a module whose default export is not a function has been rejected
C20_Witness ==
    /\ loader.pc = "loadFailed"
    /\ loader.module = "NonFunctionDefault"
    /\ loader.error = "MustExportDefaultFunction"


\* C18: an evaluation that returns a result has invoked the rule function
\* exactly once, and the promise of that invocation had settled before passed
\* and exitCode were computed; while the invocation is pending, evaluate() has
\* returned nothing.
C18_ResultOnlyAfterRuleSettled ==
    \A e \in Evals :
        /\ hist[e].invoked <= 1
        /\ ev[e].pc = "exec" =>
              /\ hist[e].invoked = 1
              /\ hist[e].outcome = "pending"
              /\ ev[e].result = None
        /\ (ev[e].pc = "returned" \/ IsSome(ev[e].result)) =>
              /\ hist[e].invoked = 1
              /\ hist[e].outcome \in RuleOutcomes

\* an evaluation whose rule called fail() and then returned normally has returned its result
C18_Witness ==
    \E e \in Evals :
        /\ ev[e].pc = "returned"
        /\ hist[e].invoked = 1
        /\ hist[e].calls.fail > 0
        /\ hist[e].outcome = "return"
        /\ IsSome(ev[e].result)

\* the findings reachable through a returned result: result.results is the
\* collector the evaluator was given
FindingsOf(result) == collectors[result.results]

\* C21: the findings held by a returned result are a snapshot, so for every
\* returned result passed is true exactly when the findings reachable through
\* the result hold no failure, whatever has been done since the return.
C21_ResultFindingsAreSnapshot ==
    \A e \in Evals :
        IsSome(ev[e].result) =>
            (Get(ev[e].result).passed <=> ~hasFailures(FindingsOf(Get(ev[e].result))))

\* the texts of the findings and markdown blocks a collector state holds
TextsIn(r) ==
    {r.messages[i].message : i \in 1..Len(r.messages)}
        \cup {r.warnings[i].message : i \in 1..Len(r.warnings)}
        \cup {r.failures[i].message : i \in 1..Len(r.failures)}
        \cup SeqToSet(r.markdowns)

\* the result evaluation e returned held a finding that the rule function of
\* another evaluation recorded
HoldsForeignFinding(e) ==
    /\ IsSome(hist[e].returned)
    /\ \E o \in Evals \ {e} : Text(o) \in TextsIn(Get(hist[e].returned))

\* the result evaluation e returned lacked a finding its own rule function
\* recorded
LostOwnFinding(e) ==
    /\ IsSome(hist[e].returned)
    /\ RuleCalls(e) > 0
    /\ Text(e) \notin TextsIn(Get(hist[e].returned))

\* C22: evaluations on the process-global collector.  A returned result holds
\* a finding of another evaluation's rule function, or lacks a finding of its
\* own rule function, only when the evaluation was in flight together with
\* another one; an evaluation that was alone in flight returns exactly its
\* own findings.
C22_InterleavingOnlyWhenConcurrent ==
    \A e \in Evals :
        (ev[e].pc = "returned" /\ ev[e].collector = "global"
         /\ (HoldsForeignFinding(e) \/ LostOwnFinding(e)))
            => hist[e].overlapped

\* two evaluations were in flight together: the first one's result holds a
\* finding of the second one's rule, and the second one's reset has removed
\* what the first one's rule had recorded before
C22_Witness ==
    \E e \in Evals, o \in Evals :
        /\ e /= o
        /\ ev[e].pc = "returned" /\ ev[e].collector = "global"
        /\ hist[e].overlapped
        /\ HoldsForeignFinding(e)
        /\ LostOwnFinding(e)
        /\ Text(o) \in TextsIn(Get(hist[e].returned))

\* the lines of a text: the pieces between line breaks
RECURSIVE splitLines(_)
splitLines(text) ==
    IF "\n" \notin SeqToSet(text) THEN <<text>>
    ELSE LET k == CHOOSE i \in 1..Len(text) :
                      text[i] = "\n" /\ \A j \in 1..(i - 1) : text[j] /= "\n"
         IN  <<SubSeq(text, 1, k - 1)>> \o splitLines(SubSeq(text, k + 1, Len(text)))

\* parseInt of a run of digits
RECURSIVE parseInt(_)
parseInt(digits) ==
    IF digits = <<>> THEN 0
    ELSE 10 * parseInt(SubSeq(digits, 1, Len(digits) - 1))
         + (CHOOSE d \in 0..9 : DigitChars[d + 1] = digits[Len(digits)])

\* the number written right before label in a line, 0 when the line has no label
CountBefore(line, label) ==
    IF label \notin SeqToSet(line) THEN 0
    ELSE LET k == CHOOSE i \in 1..Len(line) :
                      line[i] = label /\ \A j \in 1..(i - 1) : line[j] /= label
             first == CHOOSE i \in 1..k :
                          /\ \A j \in i..(k - 1) : line[j] \in SeqToSet(DigitChars)
                          /\ (i > 1 => line[i - 1] \notin SeqToSet(DigitChars))
         IN  parseInt(SubSeq(line, first, k - 1))

\* the counts read back from a report: they are in its banner, the third line
ExtractCounts(text) ==
    LET banner == splitLines(text)[3]
    IN  [failures |-> CountBefore(banner, " failure(s)"),
         warnings |-> CountBefore(banner, " warning(s)"),
         messages |-> CountBefore(banner, " message(s)")]

\* C23: the numbers of failures, warnings and messages read back from the
\* text formatAsMarkdown() returns are the lengths of the collector's
\* failures, warnings and messages lists, whatever the texts of the findings
\* and however many markdown blocks there are.
C23_CountsSurviveMarkdown ==
    IsSome(rendered) =>
        ExtractCounts(Get(rendered)) =
            [failures |-> Len(collectors["custom"].failures),
             warnings |-> Len(collectors["custom"].warnings),
             messages |-> Len(collectors["custom"].messages)]

\* a report of one warning, one markdown block and one message whose text
\* reads "2 failure(s)": no failure is read back
C23_Witness ==
    /\ IsSome(rendered)
    /\ Len(collectors["custom"].failures) = 0
    /\ Len(collectors["custom"].warnings) = 1
    /\ Len(collectors["custom"].markdowns) = 1
    /\ Len(collectors["custom"].messages) = 1
    /\ " failure(s)" \in SeqToSet(collectors["custom"].messages[1].message)
    /\ ExtractCounts(Get(rendered)) = [failures |-> 0, warnings |-> 1, messages |-> 1]

\* the positions evaluate() may move to from a position
StepsOfEvaluate ==
    {<<"idle", "context">>, <<"idle", "rejected">>, <<"context", "load">>,
     <<"load", "exec">>, <<"load", "rejected">>, <<"exec", "collect">>,
     <<"collect", "returned">>}

\* what holds of evaluation e at its position: the steps before it are done,
\* the steps after it are not
StepsDoneInOrder(e) ==
    /\ ev[e].pc \in {"context", "load", "exec", "collect", "returned"} =>
          /\ IsSome(ev[e].reviewFile)
          /\ Get(ev[e].reviewFile).exists
    /\ ev[e].pc = "context" => ev[e].review = None /\ hist[e].answers = None
    /\ ev[e].pc \in {"load", "exec", "collect", "returned"} =>
          IsSome(ev[e].review) /\ IsSome(hist[e].answers)
    /\ ev[e].pc \in {"idle", "context", "load"} =>
          ~hist[e].loaded /\ hist[e].invoked = 0 /\ RuleCalls(e) = 0
    /\ ev[e].pc \in {"exec", "collect", "returned"} =>
          hist[e].loaded /\ hist[e].invoked = 1
    /\ ev[e].pc = "rejected" =>
          /\ ev[e].error /= ""
          /\ ev[e].result = None
          /\ hist[e].invoked = 0 /\ RuleCalls(e) = 0
          /\ ev[e].review = None => hist[e].answers = None
          /\ \A c \in CollectorNames : collectors[c] = EmptyResults

\* C24: evaluate() goes through reset, locate and validate, build the
\* context, load, invoke in this order; when validation or loading fails it
\* rejects, does none of the later steps, never invokes the rule function and
\* records no finding.
C24_StepsInOrderFailuresAbort ==
    [][\A e \in Evals :
          /\ ev'[e].pc /= ev[e].pc =>
                /\ <<ev[e].pc, ev'[e].pc>> \in StepsOfEvaluate
                /\ ev[e].pc = "idle" => collectors'[ev'[e].collector] = EmptyResults
          /\ StepsDoneInOrder(e)']_vars

\* loadReviewFile has rejected after the context was built: no rule call, no
\* finding, no result
C24_Witness ==
    \E e \in Evals :
        /\ ev[e].pc = "rejected"
        /\ ev[e].error = "MustExportDefaultFunction"
        /\ IsSome(ev[e].review)
        /\ hist[e].invoked = 0
        /\ \A c \in CollectorNames : collectors[c] = EmptyResults

\* the entries of the backend's diff summary that are not binary, in order
TextEntriesOf(files) == SelectSeq(files, LAMBDA f : ~f.binary)

ListOf(op) ==
    CASE op \in {"addMessage", "message"} -> "messages"
      [] op \in {"addWarning", "warn"} -> "warnings"
      [] op \in {"addFailure", "fail"} -> "failures"
      [] op \in {"addMarkdown", "markdown"} -> "markdowns"

LevelOf(op) ==
    CASE op \in {"addMessage", "message"} -> "message"
      [] op \in {"addWarning", "warn"} -> "warn"
      [] op \in {"addFailure", "fail"} -> "fail"

AppendOps ==
    {"addMessage", "addWarning", "addFailure", "addMarkdown",
     "message", "warn", "fail", "markdown"}

\* the entry an append operation is to add for the arguments of call
EntryOf(call) ==
    IF ListOf(call.op) = "markdowns" THEN call.text
    ELSE [level |-> LevelOf(call.op), message |-> call.text,
          file |-> call.file, line |-> call.line]

\* C26: every append operation, on a collector or ambient, adds one entry
\* with the given text, file and line at the end of its own list, keeps the
\* earlier entries of that list in their order, and changes no other list of
\* this or of another collector.
C26_AppendTouchesOnlyItsList ==
    [][(collectorCalls' /= collectorCalls /\ lastCall'.op \in AppendOps) =>
          LET own == lastCall'.on
              list == ListOf(lastCall'.op)
          IN  /\ collectorCalls' = Append(collectorCalls, lastCall'.op)
              /\ lastCall'.op \in {"message", "warn", "fail", "markdown"} => own = "global"
              /\ collectors'[own][list] = Append(collectors[own][list], EntryOf(lastCall'))
              /\ \A other \in {"messages", "warnings", "failures", "markdowns"} \ {list} :
                    collectors'[own][other] = collectors[own][other]
              /\ \A c \in CollectorNames \ {own} : collectors'[c] = collectors[c]]_vars

\* a second addWarning with a location has put its entry after the first
\* one, next to a failure recorded with fail()
C26_Witness ==
    /\ lastCall.op = "addWarning" /\ IsSome(lastCall.file)
    /\ Len(collectors["custom"].warnings) = 2
    /\ collectors["custom"].warnings[2] = EntryOf(lastCall)
    /\ collectors["custom"].warnings[1] /= collectors["custom"].warnings[2]
    /\ Len(collectors["global"].failures) = 1

BannerTitles ==
    {"**Review Failed:** ", "**Review Passed with Warnings:** ", "**Review Passed:** "}

\* the text of one section of the report as it is to read: heading, blank
\* line, one bullet line per entry, blank line
SectionText(heading, results) ==
    <<heading, "\n", "\n">>
        \o join([i \in 1..Len(results) |->
                    <<"- ">> \o results[i].message \o formatBulletLocation(results[i])],
                <<"\n">>)
        \o <<"\n", "\n">>

\* the sections a report is to have, in their order: those of the non-empty
\* lists among failures, warnings, messages, then the markdown blocks
ExpectedSections(r) ==
    (IF r.failures /= <<>> THEN SectionText("### Failures", r.failures) ELSE <<>>)
    \o (IF r.warnings /= <<>> THEN SectionText("### Warnings", r.warnings) ELSE <<>>)
    \o (IF r.messages /= <<>> THEN SectionText("### Messages", r.messages) ELSE <<>>)
    \o (IF r.markdowns /= <<>>
            THEN <<"---", "\n", "\n">> \o join(r.markdowns, <<"\n", "\n">>) \o <<"\n", "\n">>
            ELSE <<>>)

\* the report from the end of its banner on
AfterBanner(text) ==
    LET k == CHOOSE i \in 1..Len(text) : text[i] \in BannerTitles
        end == CHOOSE i \in (k + 1)..Len(text) :
                   text[i] = "\n" /\ \A j \in (k + 1)..(i - 1) : text[j] /= "\n"
    IN  SubSeq(text, end + 2, Len(text))

\* C27: the report has one banner: "Review Failed" exactly when the collector
\* has failures, "Review Passed with Warnings" exactly when it has warnings
\* and no failure, "Review Passed" otherwise; after it come the sections of
\* the failures, the warnings, the messages and the markdown blocks, in this
\* order, a section being there only when its list is not empty.
C27_OneBannerThenSectionsInOrder ==
    IsSome(rendered) =>
        LET r == collectors["custom"]
            text == Get(rendered)
            banners == {i \in 1..Len(text) : text[i] \in BannerTitles}
        IN  /\ Cardinality(banners) = 1
            /\ \A i \in banners :
                  /\ text[i] = "**Review Failed:** " <=> hasFailures(r)
                  /\ text[i] = "**Review Passed with Warnings:** "
                        <=> (~hasFailures(r) /\ hasWarnings(r))
                  /\ text[i] = "**Review Passed:** " <=> (~hasFailures(r) /\ ~hasWarnings(r))
            /\ AfterBanner(text)
                  = ExpectedSections(r) \o <<"\n", "---", "\n", "*Generated by velvet*">>

\* a report of a collector with a warning, a message and a markdown block and
\* no failure: the banner is "Review Passed with Warnings"
C27_Witness ==
    /\ IsSome(rendered)
    /\ collectors["custom"].failures = <<>>
    /\ Len(collectors["custom"].warnings) = 1
    /\ Len(collectors["custom"].messages) = 1
    /\ Len(collectors["custom"].markdowns) = 1
    /\ "**Review Passed with Warnings:** " \in SeqToSet(Get(rendered))
    /\ <<"### Failures">> \notin SeqToSet(splitLines(Get(rendered)))

\* C28: the run command posts at most one comment, only after evaluate() has
\* returned a result, and only with posting on, a token and no --dry-run;
\* when posting the comment fails, the command still exits with the exit
\* code of the evaluation.
C28_PostOnceAfterEvaluate ==
    cmd.name = "run" =>
        /\ cmd.commentsPosted \in {0, 1}
        /\ cmd.commentsPosted = 1 =>
              /\ ev[1].pc = "returned" /\ IsSome(ev[1].result)
              /\ IsSome(cmd.posting)
              /\ Get(cmd.posting).post /\ Get(cmd.posting).token /\ ~Get(cmd.posting).dryRun
              /\ ~Get(cmd.posting).failed
        /\ (IsSome(cmd.posting) /\ Get(cmd.posting).failed) =>
              /\ cmd.pc = "exited"
              /\ cmd.commentsPosted = 0
              /\ cmd.exitCode = Some(Get(ev[1].result).exitCode)

\* posting the comment failed after an evaluation with a failure finding:
\* the run command exits with 1, the evaluation's exit code; no comment
C28_Witness ==
    /\ cmd.name = "run" /\ cmd.pc = "exited"
    /\ IsSome(cmd.posting) /\ Get(cmd.posting).failed
    /\ cmd.commentsPosted = 0
    /\ Get(ev[1].result).exitCode = 1
    /\ cmd.exitCode = Some(1)

\* C29: the context of an evaluation has review.github only when the
\* evaluator has enableGitHub and the environment has GITHUB_ACTIONS and
\* GITHUB_REPOSITORY; with enableGitHub off, as in the local command, no
\* GitHub object is made, nothing is fetched and review.github is absent.
C29_PRContextOnlyWhenEnabled ==
    \A e \in Evals :
        /\ (cmd.name = "local" /\ ev[e].pc /= "idle") => ~ev[e].enableGitHub
        /\ IsSome(ev[e].review) =>
              /\ IsSome(Get(ev[e].review).github) =>
                    ev[e].enableGitHub /\ env.GITHUB_ACTIONS /\ env.GITHUB_REPOSITORY
              /\ ~ev[e].enableGitHub =>
                    Get(ev[e].review).github = None /\ hist[e].fetched = 0
              /\ hist[e].fetched > 0 => IsSome(Get(ev[e].review).github)

\* the local command in a GitHub Actions environment: the context is built
\* without review.github and without a fetch
C29_Witness ==
    /\ cmd.name = "local"
    /\ env.GITHUB_ACTIONS /\ env.GITHUB_REPOSITORY /\ env.GITHUB_PR_NUMBER
    /\ IsSome(ev[1].review)
    /\ Get(ev[1].review).github = None
    /\ Get(ev[1].review).isGitHub
    /\ hist[1].fetched = 0

\* C30: the change set is not accumulated: after a second initialize() on
\* the same Git instance, the backend answering as before, created_files,
\* modified_files, deleted_files and diffs are what they were after the
\* first call.
C30_SecondInitializeChangesNothing ==
    gitCalls = 2 =>
        LET first == Git_initialize(NewGit, backend)
        IN  /\ git.created_files = first.created_files
            /\ git.modified_files = first.modified_files
            /\ git.deleted_files = first.deleted_files
            /\ git.diffs = first.diffs

====
